---- MODULE Spec2Model ----
(***************************************************************************)
(* Model of the corsaro3 report plugin                                     *)
(* (libcorsaro3/plugins/corsaro_report.c): packet processing threads that  *)
(* batch per-IP updates, IP tracker threads that tally them per interval,  *)
(* and the merge thread that sums the tracker tallies.                     *)
(*                                                                         *)
(* The specifications share the definitions of the tracker:                *)
(*   Spec         the whole plugin: processors, queues, trackers, merger   *)
(*   FairSpec     Spec with the tracker and merge threads scheduled fairly *)
(*   TrackerSpec  one IP tracker thread, handed every sequence of          *)
(*                messages (update, interval, halt) one at a time          *)
(*   MetricSpec   TrackerSpec started with a full per-IP metric array      *)
(*   MergeSpec    the plugin from the middle of an interval on, started    *)
(*                with trackers that hold tallies                          *)
(*   LengthSpec   MergeSpec with IP lengths 0 and 40                       *)
(*   LockSpec     one tracker thread and the merge thread, one step per    *)
(*                stretch of code between two operations on the mutex      *)
(*   S1Spec       the plugin fed the three packets of scenario S1          *)
(*   TagSpec      process_tags applied to one tagged address               *)
(*   KeySpec      the two GEN_METRICID macros applied to two tags          *)
(*   ConfigSpec   parse_config and finalise_config of the report plugin    *)
(*                of libcorsaro (plugins/report/corsaro_report.c)          *)
(*   WriteSpec    the end of the merge: the merged results are written     *)
(*   BatchSpec    Spec started with a nearly full update batch             *)
(*   ArraySpec    update_knownip_metric applied to one IP whose metric     *)
(*                array is full or nearly full                             *)
(*   DistinctSpec perform_distinct_merge, one loop pass per step           *)
(*   PluginsSpec  corsaro_merge_plugin_outputs over a list of plugins      *)
(*   TaggerSpec   corsaro_replace_ipmeta_provider called on a tagger       *)
(* In all but LockSpec each pass of a handler of the code is one atomic    *)
(* action: a tracker publishes lastresult / lastresultts / haltphase and   *)
(* the merger reads them with the tracker's mutex held.                    *)
(***************************************************************************)
EXTENDS Integers, Sequences, FiniteSets, TLC

\* ------------------------------------------------------------------ bounds
MaxProcs == 2          \* processing threads (stdopts->procthreads) range over 1..MaxProcs
MaxInterval == 1       \* Spec: intervals are numbered 1..MaxInterval
MaxTs == 2             \* TrackerSpec, LockSpec: interval timestamps range over 0..MaxTs
MaxPackets == 1        \* packets handed to the processors in one run of Spec
MaxDeliveries == 5     \* messages handed to the tracker in one run of TrackerSpec
MaxObservations == 4   \* ArraySpec: observations of the IP after the first ones
MaxReaders == 3        \* DistinctSpec: interim files (tcount) range over 1..MaxReaders
MaxResults == 2        \* DistinctSpec: results per interim file, with keys 1..MaxResults
MaxPlugins == 3        \* PluginsSpec: active plugins range over 1..MaxPlugins
MaxProviders == 3      \* TaggerSpec: provider ids range over 1..MaxProviders
MaxCalls == 2          \* TaggerSpec: calls of corsaro_replace_ipmeta_provider

\* ------------------------------------------------------- program constants
tracker_count == 4
CORSARO_IP_MESSAGE_HALT == 0
CORSARO_IP_MESSAGE_INTERVAL == 1
METRIC_ARRAY_SIZE == 20
REPORT_BATCH_SIZE == 500
METRIC_PORT_MAX == 65536
METRIC_ICMP_MAX == 256
METRIC_IPPROTOS_MAX == 256
CORSARO_METRIC_CLASS_COMBINED == 0
CORSARO_METRIC_CLASS_MAXMIND_CONTINENT == 1
CORSARO_METRIC_CLASS_MAXMIND_COUNTRY == 2
CORSARO_METRIC_CLASS_NETACQ_CONTINENT == 3
CORSARO_METRIC_CLASS_NETACQ_COUNTRY == 4
CORSARO_METRIC_CLASS_PREFIX_ASN == 5
CORSARO_METRIC_CLASS_TCP_SOURCE_PORT == 6
CORSARO_METRIC_CLASS_TCP_DEST_PORT == 7
CORSARO_METRIC_CLASS_UDP_SOURCE_PORT == 8
CORSARO_METRIC_CLASS_UDP_DEST_PORT == 9
CORSARO_METRIC_CLASS_IP_PROTOCOL == 10
CORSARO_METRIC_CLASS_ICMP_CODE == 11
CORSARO_METRIC_CLASS_ICMP_TYPE == 12
TRACE_IPPROTO_ICMP == 1
TRACE_IPPROTO_TCP == 6
TRACE_IPPROTO_UDP == 17

\* uint8_t counters wrap; the 32 and 64 bit counters stay far below their
\* width within the bounds and are kept as plain integers
U8 == 2^8

\* a pointer is <<>> (NULL) or <<v>> (a pointer to v)
NULL == <<>>
Ptr(v) == <<v>>
Deref(p) == p[1]

Trackers == 0 .. (tracker_count - 1)
AllProcs == 0 .. (MaxProcs - 1)
Intervals == 1 .. MaxInterval

\* ------------------------------------------------------------ small helpers
Min(a, b) == IF a < b THEN a ELSE b

\* f with key k bound to v (k may be new)
Put(f, k, v) == [x \in (DOMAIN f) \cup {k} |-> IF x = k THEN v ELSE f[x]]

EmptyMap == [x \in {} |-> 0]

\* --------------------------------------------------- per-IP metric tracking
\* one tally: corsaro_metric_ip_hash_t
NewTally == [srcips |-> 0, destips |-> 0, packets |-> 0, bytes |-> 0]

\* one IP: corsaro_ip_hash_t as update_iphash creates it
NewIpHash == [firstmetrics |-> <<>>, metriccount |-> 0, metricsseen |-> EmptyMap]

\* a variant of SeenBits that increments the counter whatever the bits say
SeenBitsAlways(metval, issrc, m) ==
    IF issrc # 0
    THEN [metval |-> metval + 1 - (metval % 2), m |-> [m EXCEPT !.srcips = @ + 1]]
    ELSE [metval |-> metval + 2 - 2 * ((metval \div 2) % 2),
          m |-> [m EXCEPT !.destips = @ + 1]]

\* the seen-bit step shared by update_metric_map and update_metric_array:
\* r.metval is the new bitmask, r.m the tally after the possible increment
SeenBits(metval, issrc, m) ==
    IF issrc # 0 /\ (metval % 2) = 0
    THEN [metval |-> metval + 1, m |-> [m EXCEPT !.srcips = @ + 1]]
    ELSE IF issrc = 0 /\ ((metval \div 2) % 2) = 0
    THEN [metval |-> metval + 2, m |-> [m EXCEPT !.destips = @ + 1]]
    ELSE [metval |-> metval, m |-> m]

\* update_metric_map: result [iphash, m]
update_metric_map(iphash, metricid, issrc, m) ==
    LET isnew == metricid \notin DOMAIN iphash.metricsseen
        seen0 == IF isnew THEN Put(iphash.metricsseen, metricid, 0)
                 ELSE iphash.metricsseen
        cnt == IF isnew THEN iphash.metriccount + 1 ELSE iphash.metriccount
        r == SeenBits(seen0[metricid], issrc, m)
    IN [iphash |-> [iphash EXCEPT !.metricsseen = Put(seen0, metricid, r.metval),
                                  !.metriccount = cnt],
        m |-> r.m]

\* index of metricid among the used slots of firstmetrics, 0 when absent
FindMetric(iphash, metricid) ==
    LET n == Min(iphash.metriccount, Len(iphash.firstmetrics))
        hits == {i \in 1 .. n : iphash.firstmetrics[i].metricid = metricid}
    IN IF hits = {} THEN 0 ELSE CHOOSE i \in hits : \A j \in hits : i <= j

\* a variant of ArrayToMap that enters the metrics of the array in the map
\* without their seen bits
ArrayToMapCleared(arr, seen) ==
    [k \in (DOMAIN seen) \cup {arr[i].metricid : i \in 1 .. Len(arr)} |->
        IF \E i \in 1 .. Len(arr) : arr[i].metricid = k THEN 0 ELSE seen[k]]

\* the array copied into the hash map (the conversion loop)
ArrayToMap(arr, seen) ==
    [k \in (DOMAIN seen) \cup {arr[i].metricid : i \in 1 .. Len(arr)} |->
        IF \E i \in 1 .. Len(arr) : arr[i].metricid = k
        THEN arr[CHOOSE i \in 1 .. Len(arr) :
                    /\ arr[i].metricid = k
                    /\ \A j \in 1 .. Len(arr) : arr[j].metricid = k => j <= i].metval
        ELSE seen[k]]

\* update_metric_array: result [iphash, m]
update_metric_array(iphash, metricid, issrc, m) ==
    LET found == FindMetric(iphash, metricid)
    IN IF found = 0 /\ iphash.metriccount = METRIC_ARRAY_SIZE
       THEN update_metric_map(
                [iphash EXCEPT !.metricsseen =
                    ArrayToMap(iphash.firstmetrics, iphash.metricsseen)],
                metricid, issrc, m)
       ELSE LET arr0 == IF found = 0
                        THEN Append(iphash.firstmetrics,
                                    [metricid |-> metricid, metval |-> 0])
                        ELSE iphash.firstmetrics
                cnt == IF found = 0 THEN iphash.metriccount + 1
                       ELSE iphash.metriccount
                idx == IF found = 0 THEN Len(arr0) ELSE found
                r == SeenBits(arr0[idx].metval, issrc, m)
            IN [iphash |-> [iphash EXCEPT
                                !.firstmetrics = [arr0 EXCEPT ![idx].metval = r.metval],
                                !.metriccount = cnt],
                m |-> r.m]

\* the packet / byte part of update_knownip_metric
AddPacket(m, iplen) ==
    IF iplen > 0
    THEN [m EXCEPT !.packets = @ + 1, !.bytes = @ + iplen]
    ELSE m

\* the kh_get / kh_put of update_knownip_metric: the tally of metricid, a zeroed
\* one when the map has none
FindTally(metrictally, metricid) ==
    IF metricid \in DOMAIN metrictally THEN metrictally[metricid] ELSE NewTally

\* r = [iphash, m] of the metric update, with m back in the tally map
StoreTally(metrictally, metricid, r) ==
    [iphash |-> r.iphash, tally |-> Put(metrictally, metricid, r.m)]

\* update_knownip_metric: result [iphash, tally] (tally is the whole kh_tally map)
update_knownip_metric(metricid, iphash, issrc, iplen, metrictally) ==
    StoreTally(metrictally, metricid,
        IF iphash.metriccount <= METRIC_ARRAY_SIZE
        THEN update_metric_array(iphash, metricid, issrc,
                 AddPacket(FindTally(metrictally, metricid), iplen))
        ELSE update_metric_map(iphash, metricid, issrc,
                 AddPacket(FindTally(metrictally, metricid), iplen)))

\* the seen bitmask of (ip entry, metric): what the array or the map holds
MetVal(iphash, metricid) ==
    IF iphash.metriccount <= METRIC_ARRAY_SIZE
    THEN LET i == FindMetric(iphash, metricid)
         IN IF i = 0 THEN 0 ELSE iphash.firstmetrics[i].metval
    ELSE IF metricid \in DOMAIN iphash.metricsseen
         THEN iphash.metricsseen[metricid] ELSE 0

\* ------------------------------------------------- outstanding intervals
\* corsaro_report_out_interval_t; reports_recvd is the set of indexes whose
\* flag is 1
NewOutInterval(ts, sender) ==
    [interval_ts |-> ts, reports_recvd |-> {sender}, reports_total |-> 1]

\* a variant of sender_in_outstanding that looks at the list only
AnyOutstanding(outl, sender) == Len(outl) > 0

\* sender_in_outstanding
sender_in_outstanding(outl, sender) ==
    \E i \in 1 .. Len(outl) : sender \in outl[i].reports_recvd

\* a variant of CountReport that counts a message whatever the sender's flag
CountReportUnflagged(o, sender) ==
    [o EXCEPT !.reports_recvd = @ \cup {sender},
              !.reports_total = (@ + 1) % U8]

\* the flag test and count of update_outstanding for the entry found
CountReport(o, sender) ==
    IF sender \notin o.reports_recvd
    THEN [o EXCEPT !.reports_recvd = @ \cup {sender},
                   !.reports_total = (@ + 1) % U8]
    ELSE o

\* first list position holding interval ts, 0 when there is none
FindInterval(outl, ts) ==
    LET hits == {i \in 1 .. Len(outl) : outl[i].interval_ts = ts}
    IN IF hits = {} THEN 0 ELSE CHOOSE i \in hits : \A j \in hits : i <= j

\* a variant of PopCompleted that takes the entry of toret alone off the list
PopCompletedEntry(outl, toret) ==
    LET idx == FindInterval(outl, toret)
    IN IF idx = 0 THEN <<>>
       ELSE SubSeq(outl, 1, idx - 1) \o SubSeq(outl, idx + 1, Len(outl))

\* the pop loop of update_outstanding: everything up to and with the entry of
\* toret leaves the list
PopCompleted(outl, toret) ==
    LET idx == FindInterval(outl, toret)
    IN IF idx = 0 THEN <<>> ELSE SubSeq(outl, idx + 1, Len(outl))

\* a variant of PushInterval that puts the new interval at the head of the list
PushIntervalFront(outl, ts, sender) ==
    IF Len(outl) > 0 /\ ~(outl[Len(outl)].interval_ts < ts)
    THEN [outl |-> outl, ret |-> 0, ok |-> FALSE]
    ELSE [outl |-> <<NewOutInterval(ts, sender)>> \o outl, ret |-> 0, ok |-> TRUE]

\* the tail of update_outstanding: a new interval is appended; ok is FALSE
\* when assert(o->interval_ts < ts) fails
PushInterval(outl, ts, sender) ==
    IF Len(outl) > 0 /\ ~(outl[Len(outl)].interval_ts < ts)
    THEN [outl |-> outl, ret |-> 0, ok |-> FALSE]
    ELSE [outl |-> Append(outl, NewOutInterval(ts, sender)), ret |-> 0, ok |-> TRUE]

\* update_outstanding: [outl: the list afterwards, ret: the return value,
\* ok: FALSE when the ordering assertion fails]
update_outstanding(outl, ts, limit, sender) ==
    LET idx == FindInterval(outl, ts)
    IN IF idx = 0 THEN PushInterval(outl, ts, sender)
       ELSE LET o == CountReport(outl[idx], sender)
                outl1 == [outl EXCEPT ![idx] = o]
            IN IF o.reports_total = limit
               THEN IF ts > 0
                    THEN [outl |-> PopCompleted(outl1, ts), ret |-> ts, ok |-> TRUE]
                    ELSE PushInterval(outl1, ts, sender)
               ELSE [outl |-> outl1, ret |-> 0, ok |-> TRUE]

\* ------------------------------------------------------ tracker: updates
\* the kh_get / kh_put on the known-IP map in process_msg_body: the entry of
\* ipaddr, a fresh one when the map has none
FindIp(knownips, ipaddr) ==
    IF ipaddr \in DOMAIN knownips THEN knownips[ipaddr] ELSE NewIpHash

\* r = [iphash, tally] of update_knownip_metric, with iphash back in the IP map
StoreIp(knownips, ipaddr, r) ==
    [knownips |-> Put(knownips, ipaddr, r.iphash), tally |-> r.tally, ok |-> TRUE]

\* one pass of the tag loop of process_msg_body on maps = [knownips, tally, ok];
\* ok is FALSE when assert(body->tags[0] == 0) fails
ApplyTag(maps, body, i) ==
    IF ~maps.ok THEN maps
    ELSE IF i = 1 /\ body.tags[1] # <<0, 0>> THEN [maps EXCEPT !.ok = FALSE]
    ELSE StoreIp(maps.knownips, body.ipaddr,
             update_knownip_metric(body.tags[i], FindIp(maps.knownips, body.ipaddr),
                                   body.issrc, body.size, maps.tally))

\* the tag loop of process_msg_body, tags 0 .. numtags-1 in order
ApplyTags(knownips, tally, body) ==
    LET step[i \in 0 .. body.numtags] ==
            IF i = 0 THEN [knownips |-> knownips, tally |-> tally, ok |-> TRUE]
            ELSE ApplyTag(step[i - 1], body, i)
    IN step[body.numtags]

\* a variant of UseNextMaps that always picks the current maps
UseCurrentMaps(outl, sender) == FALSE

\* which maps process_msg_body picks: TRUE for the next-interval maps
UseNextMaps(outl, sender) ==
    IF Len(outl) = 0 THEN FALSE
    ELSE IF sender_in_outstanding(outl, sender) THEN TRUE
    ELSE FALSE

\* the maps r = [knownips, tally, ok] as the tracker's next-interval maps
StoreNext(trk, r) ==
    [trk |-> [trk EXCEPT !.knownips_next = r.knownips, !.nextresult = r.tally],
     ok |-> r.ok]

\* the maps r = [knownips, tally, ok] as the tracker's current maps
StoreCurrent(trk, r) ==
    [trk |-> [trk EXCEPT !.knownips = r.knownips, !.currentresult = r.tally],
     ok |-> r.ok]

\* process_msg_body: [trk, ok]
process_msg_body(trk, sender, body) ==
    IF UseNextMaps(trk.outstanding, sender)
    THEN StoreNext(trk, ApplyTags(trk.knownips_next, trk.nextresult, body))
    ELSE StoreCurrent(trk, ApplyTags(trk.knownips, trk.currentresult, body))

\* one pass of the body loop of start_iptracker on r = [trk, ok]
ApplyBody(r, sender, body) ==
    IF ~r.ok THEN r ELSE process_msg_body(r.trk, sender, body)

\* the update branch of start_iptracker: bodies 0 .. bodycount-1 in order
ApplyBodies(trk, msg) ==
    LET step[i \in 0 .. msg.bodycount] ==
            IF i = 0 THEN [trk |-> trk, ok |-> TRUE]
            ELSE ApplyBody(step[i - 1], msg.sender, msg.update[i])
    IN step[msg.bodycount]

\* ---------------------------------------------------- tracker: one message
\* an iptracker as corsaro_report_finalise_config creates it
NewTracker(procthreads) ==
    [lastresultts |-> 0, sourcethreads |-> procthreads, haltphase |-> 0,
     knownips |-> EmptyMap, knownips_next |-> EmptyMap,
     lastresult |-> NULL, currentresult |-> EmptyMap, nextresult |-> EmptyMap,
     outstanding |-> <<>>]

\* the HALT branch
HandleHalt(trk) ==
    IF Len(trk.outstanding) = 0
    THEN [trk EXCEPT !.haltphase = 2]
    ELSE [trk EXCEPT !.haltphase = 1]

\* a variant of StaleInterval without the test against lastresultts
ZeroInterval(timestamp, lastresultts) == timestamp = 0

\* the two early exits of the INTERVAL branch
StaleInterval(timestamp, lastresultts) ==
    timestamp = 0 \/ timestamp <= lastresultts

\* a variant of FinishInterval that starts the new interval with empty maps
FinishIntervalEmpty(trk, complete) ==
    [trk EXCEPT !.lastresult = Ptr(trk.currentresult),
                !.lastresultts = complete,
                !.haltphase = IF @ = 1 THEN 2 ELSE @,
                !.knownips = EmptyMap,
                !.currentresult = EmptyMap,
                !.knownips_next = EmptyMap,
                !.nextresult = EmptyMap]

\* publishing the tally and rotating the maps once an interval is complete
FinishInterval(trk, complete) ==
    [trk EXCEPT !.lastresult = Ptr(trk.currentresult),
                !.lastresultts = complete,
                !.haltphase = IF @ = 1 THEN 2 ELSE @,
                !.knownips = trk.knownips_next,
                !.currentresult = trk.nextresult,
                !.knownips_next = EmptyMap,
                !.nextresult = EmptyMap]

\* the INTERVAL branch: [trk, failed, complete]; failed names the assertion that
\* fails ("" when none), complete is update_outstanding's value when the
\* interval was published, 0 otherwise
HandleInterval(trk, msg) ==
    IF StaleInterval(msg.timestamp, trk.lastresultts)
    THEN [trk |-> trk, failed |-> "", complete |-> 0]
    ELSE LET r == update_outstanding(trk.outstanding, msg.timestamp,
                                     trk.sourcethreads, msg.sender)
             trk1 == [trk EXCEPT !.outstanding = r.outl]
         IN IF ~r.ok THEN [trk |-> trk, failed |-> "interval_order", complete |-> 0]
            ELSE IF r.ret = 0 THEN [trk |-> trk1, failed |-> "", complete |-> 0]
            ELSE IF trk1.lastresult # NULL
            THEN [trk |-> trk1, failed |-> "lastresult_pending", complete |-> 0]
            ELSE [trk |-> FinishInterval(trk1, r.ret), failed |-> "",
                  complete |-> r.ret]

\* the update branch as a result of the loop: r = [trk, ok] of the bodies
UpdateResult(r) ==
    [trk |-> r.trk, failed |-> IF r.ok THEN "" ELSE "combined_first",
     complete |-> 0]

\* one pass of the loop of start_iptracker for the message it got
TrackerMessage(trk, msg) ==
    IF msg.msgtype = CORSARO_IP_MESSAGE_HALT
    THEN [trk |-> HandleHalt(trk), failed |-> "", complete |-> 0]
    ELSE IF msg.msgtype = CORSARO_IP_MESSAGE_INTERVAL
    THEN HandleInterval(trk, msg)
    ELSE UpdateResult(ApplyBodies(trk, msg))

\* ------------------------------------------------------ processor: tagging
\* GEN_METRICID: the 64 bit key (class << 32) + val of a 32 bit val, kept as its
\* two 32 bit halves <<upper, lower>>
GEN_METRICID(class, val) == <<class, val>>

\* the key of the combined metric: the 64 bit value 0
CombinedId == <<0, 0>>

\* a variant of process_single_tag that applies the bound check to the classes
\* without a bound (maxtagval 0) as well
process_single_tag_bounded(class, tagval, maxtagval, taglist) ==
    IF tagval >= maxtagval THEN taglist
    ELSE Append(taglist, <<class, tagval>>)

\* process_single_tag: the tag list afterwards
process_single_tag(class, tagval, maxtagval, taglist) ==
    IF maxtagval > 0 /\ tagval >= maxtagval THEN taglist
    ELSE Append(taglist, GEN_METRICID(class, tagval))

\* a variant of BodySize that charges the packet to both addresses
BodySizeBoth(issrc, iplen) == iplen

\* the size a body carries: the packet is charged to its source address only
BodySize(issrc, iplen) == IF issrc # 0 THEN iplen ELSE 0

\* the tags process_tags adds after the combined tag, by protocol
ProtocolTags(tags, l) ==
    LET l1 == process_single_tag(CORSARO_METRIC_CLASS_IP_PROTOCOL, tags.protocol,
                                 METRIC_IPPROTOS_MAX, l)
    IN IF tags.protocol = TRACE_IPPROTO_ICMP
       THEN process_single_tag(CORSARO_METRIC_CLASS_ICMP_CODE, tags.dest_port,
                METRIC_ICMP_MAX,
                process_single_tag(CORSARO_METRIC_CLASS_ICMP_TYPE, tags.src_port,
                                   METRIC_ICMP_MAX, l1))
       ELSE IF tags.protocol = TRACE_IPPROTO_TCP
       THEN process_single_tag(CORSARO_METRIC_CLASS_TCP_DEST_PORT, tags.dest_port,
                METRIC_PORT_MAX,
                process_single_tag(CORSARO_METRIC_CLASS_TCP_SOURCE_PORT,
                                   tags.src_port, METRIC_PORT_MAX, l1))
       ELSE IF tags.protocol = TRACE_IPPROTO_UDP
       THEN process_single_tag(CORSARO_METRIC_CLASS_UDP_DEST_PORT, tags.dest_port,
                METRIC_PORT_MAX,
                process_single_tag(CORSARO_METRIC_CLASS_UDP_SOURCE_PORT,
                                   tags.src_port, METRIC_PORT_MAX, l1))
       ELSE l1

\* a variant of ProviderTags that adds the geo-location and ASN tags whatever
\* providers_used says
ProviderTagsAlways(tags, l) ==
    l \o <<<<CORSARO_METRIC_CLASS_MAXMIND_CONTINENT, tags.maxmind_continent>>,
           <<CORSARO_METRIC_CLASS_MAXMIND_COUNTRY, tags.maxmind_country>>,
           <<CORSARO_METRIC_CLASS_NETACQ_CONTINENT, tags.netacq_continent>>,
           <<CORSARO_METRIC_CLASS_NETACQ_COUNTRY, tags.netacq_country>>,
           <<CORSARO_METRIC_CLASS_PREFIX_ASN, tags.prefixasn>>>>

\* the geo-location and ASN tags of process_tags; providers_used is the set of
\* providers whose bit is set ("basic" is bit 0)
ProviderTags(tags, l) ==
    LET l1 == IF "maxmind" \in tags.providers_used
              THEN process_single_tag(CORSARO_METRIC_CLASS_MAXMIND_COUNTRY,
                       tags.maxmind_country, 0,
                       process_single_tag(CORSARO_METRIC_CLASS_MAXMIND_CONTINENT,
                                          tags.maxmind_continent, 0, l))
              ELSE l
        l2 == IF "netacq" \in tags.providers_used
              THEN process_single_tag(CORSARO_METRIC_CLASS_NETACQ_COUNTRY,
                       tags.netacq_country, 0,
                       process_single_tag(CORSARO_METRIC_CLASS_NETACQ_CONTINENT,
                                          tags.netacq_continent, 0, l1))
              ELSE l1
    IN IF "pfx2as" \in tags.providers_used
       THEN process_single_tag(CORSARO_METRIC_CLASS_PREFIX_ASN, tags.prefixasn, 0, l2)
       ELSE l2

\* process_tags: the body it fills in
process_tags(tags, iplen, addr, issrc) ==
    LET l0 == process_single_tag(CORSARO_METRIC_CLASS_COMBINED, 0, 0, <<>>)
        l == IF tags = NULL \/ Deref(tags).providers_used = {} THEN l0
             ELSE ProviderTags(Deref(tags), ProtocolTags(Deref(tags), l0))
    IN [ipaddr |-> addr, issrc |-> issrc, numtags |-> Len(l), tags |-> l,
        size |-> BodySize(issrc, iplen)]

\* the tracker an address is hashed to in update_metrics_for_address
trackerhash(addr) == (addr \div (2^24)) % tracker_count

\* ------------------------------------------------------------------ inputs
\* addresses: Addr1 and Addr3 hash to the same tracker, Addr2 to another
Addr1 == 1 * (2^24) + 4
Addr2 == 6 * (2^24) + 8
Addr3 == 5 * (2^24) + 8

\* a TCP packet tagged by the basic tagger only
TcpTags ==
    [providers_used |-> {"basic"}, protocol |-> TRACE_IPPROTO_TCP,
     src_port |-> 22, dest_port |-> 80,
     maxmind_continent |-> 0, maxmind_country |-> 0,
     netacq_continent |-> 0, netacq_country |-> 0, prefixasn |-> 0]

PacketLens == {0, 40}

\* ------------------------------------------------------------------- state
VARIABLES
    procthreads,   \* stdopts->procthreads: the number of processing threads
    track,         \* conf->iptrackers[i]
    incoming,      \* the message queue of each tracker, oldest first
    state,         \* corsaro_report_state_t of each processing thread, and
                   \* where the thread is (pc)
    merge,         \* the locals of corsaro_report_merge_interval_results
    written,       \* interval -> the rows handed to write_all_metrics
    failed,        \* the assertion that has aborted the process, "" if none
    delivered,     \* TrackerSpec: the message the tracker was handed last
    ghost          \* history: what was processed, finalized and counted

vars == <<procthreads, track, incoming, state, merge, written, failed,
          delivered, ghost>>

Procs == 0 .. (procthreads - 1)

\* nextmsg[i] as corsaro_report_init_processing leaves it: calloc'ed, then
\* update / handler / memsrc / sender set
NewMessage(threadid) ==
    [msgtype |-> 0, sender |-> threadid, timestamp |-> 0, bodycount |-> 0,
     update |-> <<>>, kind |-> "update", ival |-> 0]

\* corsaro_report_init_processing
NewState(threadid) ==
    [pc |-> "idle", threadid |-> threadid, current_interval |-> 0,
     nextmsg |-> [i \in Trackers |-> NewMessage(threadid)]]

IdleMerge ==
    [pc |-> "idle", fin |-> 0, trackers_done |-> {}, totaldone |-> 0,
     skipresult |-> 0, results |-> EmptyMap]

\* history of one tracker: the INTERVAL messages it has taken off its queue,
\* the intervals it has published in order, the intervals whose update bodies
\* went into each of its tallies, and whether it has applied a body of a sender
\* that was flagged in two or more outstanding intervals; tallies maps every
\* published interval to the tally published for it
NewGhost ==
    [seen |-> {}, final |-> <<>>, cur |-> {}, next |-> {}, last |-> {},
     ahead |-> FALSE, tallies |-> EmptyMap]

NoPackets == [count |-> 0, bytes |-> 0, srcs |-> {}, dsts |-> {}]

Init ==
    /\ procthreads \in 1 .. MaxProcs
    /\ track = [i \in Trackers |-> NewTracker(procthreads)]
    /\ incoming = [i \in Trackers |-> <<>>]
    /\ state = [p \in AllProcs |-> NewState(p)]
    /\ merge = IdleMerge
    /\ written = EmptyMap
    /\ failed = ""
    /\ delivered = NULL
    /\ ghost = [trk |-> [i \in Trackers |-> NewGhost],
                pkts |-> [T \in Intervals |-> NoPackets],
                npackets |-> 0, ndelivered |-> 0, irregular |-> FALSE,
                halting |-> FALSE]

\* ------------------------------------------------------- tracker thread
\* the number of outstanding intervals sender is flagged in
FlaggedIn(outl, sender) ==
    Cardinality({k \in 1 .. Len(outl) : sender \in outl[k].reports_recvd})

\* the history after tracker i has handled msg with result r
GhostAfter(g, trk, msg, r) ==
    LET isupdate == msg.msgtype # CORSARO_IP_MESSAGE_HALT
                    /\ msg.msgtype # CORSARO_IP_MESSAGE_INTERVAL
        applied == isupdate /\ \E k \in 1 .. msg.bodycount : msg.update[k].numtags > 0
        tonext == UseNextMaps(trk.outstanding, msg.sender)
        g1 == IF msg.msgtype = CORSARO_IP_MESSAGE_INTERVAL
              THEN [g EXCEPT !.seen = @ \cup {<<msg.sender, msg.timestamp>>}]
              ELSE g
        g2 == IF applied /\ tonext
              THEN [g1 EXCEPT !.next = @ \cup {msg.ival},
                              !.ahead = @ \/ FlaggedIn(trk.outstanding, msg.sender) > 1]
              ELSE IF applied THEN [g1 EXCEPT !.cur = @ \cup {msg.ival}]
              ELSE g1
    IN IF r.complete # 0
       THEN [g2 EXCEPT !.final = Append(@, r.complete), !.last = g2.cur,
                       !.cur = g2.next, !.next = {},
                       !.tallies = Put(@, r.complete, Deref(r.trk.lastresult))]
       ELSE g2

\* tracker i handles msg: the fields of the tracker and the history change,
\* or the process is aborted by an assertion
Handled(i, msg, r) ==
    /\ track' = [track EXCEPT ![i] = r.trk]
    /\ failed' = r.failed
    /\ ghost' = [ghost EXCEPT !.trk[i] = GhostAfter(@, track[i], msg, r),
                            !.ndelivered = @ + 1,
                            !.irregular = @ \/ msg.kind = "stray"]

Handle(i, msg) == Handled(i, msg, TrackerMessage(track[i], msg))

\* one pass of the loop of start_iptracker with a message on the queue
start_iptracker(i) ==
    /\ failed = ""
    /\ track[i].haltphase # 2
    /\ incoming[i] # <<>>
    /\ Handle(i, Head(incoming[i]))
    /\ incoming' = [incoming EXCEPT ![i] = Tail(@)]
    /\ UNCHANGED <<procthreads, state, merge, written, delivered>>

\* --------------------------------------------------- processing threads
\* libtrace_message_queue_put of a copy of msg on tracker i's queue
QueuePut(q, i, msg) == [q EXCEPT ![i] = Append(@, msg)]

\* the pending message restarted after it was put on the queue
RestartMessage(msg) == [msg EXCEPT !.bodycount = 0, !.update = <<>>]

\* a variant of update_metrics_for_address that sends a batch only once it
\* holds more than REPORT_BATCH_SIZE bodies
update_metrics_late(sq, addr, issrc, iplen, tags) ==
    LET h == trackerhash(addr)
        msg == sq.st.nextmsg[h]
        body == process_tags(tags, iplen, addr, issrc)
        msg1 == [msg EXCEPT !.update = Append(SubSeq(@, 1, msg.bodycount), body),
                            !.bodycount = @ + 1,
                            !.ival = sq.st.current_interval]
    IN IF msg1.bodycount <= REPORT_BATCH_SIZE
       THEN [sq EXCEPT !.st.nextmsg[h] = msg1]
       ELSE [st |-> [sq.st EXCEPT !.nextmsg[h] = RestartMessage(msg1)],
             q |-> QueuePut(sq.q, h, msg1)]

\* update_metrics_for_address on sq = [st: the thread's state, q: the queues]
update_metrics_for_address(sq, addr, issrc, iplen, tags) ==
    LET h == trackerhash(addr)
        msg == sq.st.nextmsg[h]
        body == process_tags(tags, iplen, addr, issrc)
        msg1 == [msg EXCEPT !.update = Append(SubSeq(@, 1, msg.bodycount), body),
                            !.bodycount = @ + 1,
                            !.ival = sq.st.current_interval]
    IN IF msg1.bodycount < REPORT_BATCH_SIZE
       THEN [sq EXCEPT !.st.nextmsg[h] = msg1]
       ELSE [st |-> [sq.st EXCEPT !.nextmsg[h] = RestartMessage(msg1)],
             q |-> QueuePut(sq.q, h, msg1)]

\* the history of the packets of interval T
CountPacket(g, T, src, dst, iplen) ==
    [g EXCEPT !.npackets = @ + 1,
              !.pkts[T] = [count |-> @.count + 1, bytes |-> @.bytes + iplen,
                           srcs |-> @.srcs \cup {src}, dsts |-> @.dsts \cup {dst}]]

\* corsaro_report_process_packet for an IPv4 packet
corsaro_report_process_packet(p, src, dst, iplen, tags) ==
    /\ failed = ""
    /\ state[p].pc = "in"
    /\ ghost.npackets < MaxPackets
    /\ LET sq1 == update_metrics_for_address([st |-> state[p], q |-> incoming],
                                             src, 1, iplen, tags)
           sq2 == update_metrics_for_address(sq1, dst, 0, iplen, tags)
       IN /\ state' = [state EXCEPT ![p] = sq2.st]
          /\ incoming' = sq2.q
    /\ ghost' = CountPacket(ghost, state[p].current_interval, src, dst, iplen)
    /\ UNCHANGED <<procthreads, track, merge, written, failed, delivered>>

\* corsaro_report_start_interval: the intervals start at 1, 2, ...
corsaro_report_start_interval(p) ==
    /\ failed = ""
    /\ state[p].pc = "idle"
    /\ state[p].current_interval < MaxInterval
    /\ state' = [state EXCEPT ![p].pc = "in", ![p].current_interval = @ + 1]
    /\ UNCHANGED <<procthreads, track, incoming, merge, written, failed,
                   delivered, ghost>>

\* a variant of FlushAndSend that puts the marker on the queue before the
\* pending updates
RECURSIVE MarkerThenFlush(_, _, _)
MarkerThenFlush(sq, marker, i) ==
    IF i >= tracker_count THEN sq
    ELSE LET msg == sq.st.nextmsg[i]
             sq1 == [sq EXCEPT !.q = QueuePut(@, i, marker)]
         IN MarkerThenFlush(
                IF msg.bodycount > 0
                THEN [st |-> [sq1.st EXCEPT !.nextmsg[i] = RestartMessage(msg)],
                      q |-> QueuePut(sq1.q, i, msg)]
                ELSE sq1, marker, i + 1)

\* the loop of end_interval and of halt_processing over the trackers from
\* tracker i on: the pending updates first, then the marker
RECURSIVE FlushAndSend(_, _, _)
FlushAndSend(sq, marker, i) ==
    IF i >= tracker_count THEN sq
    ELSE LET msg == sq.st.nextmsg[i]
             sq1 == IF msg.bodycount > 0
                    THEN [st |-> [sq.st EXCEPT !.nextmsg[i] = RestartMessage(msg)],
                          q |-> QueuePut(sq.q, i, msg)]
                    ELSE sq
         IN FlushAndSend([sq1 EXCEPT !.q = QueuePut(@, i, marker)], marker, i + 1)

\* the interval message of end_interval
IntervalMessage(st) ==
    [msgtype |-> CORSARO_IP_MESSAGE_INTERVAL, sender |-> st.threadid,
     timestamp |-> st.current_interval, bodycount |-> 0, update |-> <<>>,
     kind |-> "interval", ival |-> st.current_interval]

\* the halt message of halt_processing
HaltMessage(st) ==
    [msgtype |-> CORSARO_IP_MESSAGE_HALT, sender |-> st.threadid,
     timestamp |-> 0, bodycount |-> 0, update |-> <<>>,
     kind |-> "halt", ival |-> st.current_interval]

\* corsaro_report_end_interval
corsaro_report_end_interval(p) ==
    /\ failed = ""
    /\ state[p].pc = "in"
    /\ LET sq == FlushAndSend([st |-> state[p], q |-> incoming],
                              IntervalMessage(state[p]), 0)
       IN /\ state' = [state EXCEPT ![p] = [sq.st EXCEPT !.pc = "idle"]]
          /\ incoming' = sq.q
    /\ UNCHANGED <<procthreads, track, merge, written, failed, delivered, ghost>>

\* corsaro_report_halt_processing up to the joins
corsaro_report_halt_processing(p) ==
    /\ failed = ""
    /\ state[p].pc \in {"idle", "in"}
    /\ LET sq == FlushAndSend([st |-> state[p], q |-> incoming],
                              HaltMessage(state[p]), 0)
       IN /\ state' = [state EXCEPT ![p] = [sq.st EXCEPT !.pc = "joining"]]
          /\ incoming' = sq.q
    /\ ghost' = [ghost EXCEPT !.halting = TRUE]
    /\ UNCHANGED <<procthreads, track, merge, written, failed, delivered>>

\* the pthread_join loop of halt_processing returns
halt_processing_joined(p) ==
    /\ failed = ""
    /\ state[p].pc = "joining"
    /\ \A i \in Trackers : track[i].haltphase = 2
    /\ state' = [state EXCEPT ![p].pc = "done"]
    /\ UNCHANGED <<procthreads, track, incoming, merge, written, failed,
                   delivered, ghost>>

\* ------------------------------------------------------------ merge thread
\* the interval a processing thread has ended last
EndedInterval(st) ==
    IF st.pc = "in" THEN st.current_interval - 1 ELSE st.current_interval

\* a result row: corsaro_report_result_t as new_result creates it
NewResult == [pkt_cnt |-> 0, bytes |-> 0, uniq_src_ips |-> 0, uniq_dst_ips |-> 0]

\* a variant of AddTally that stores the tally in place of the row
AddTallyOverwrite(results, metricid, m) ==
    Put(results, metricid,
        [pkt_cnt |-> m.packets, bytes |-> m.bytes,
         uniq_src_ips |-> m.srcips, uniq_dst_ips |-> m.destips])

\* one metric of a tracker tally added to the merged results
AddTally(results, metricid, m) ==
    LET r == IF metricid \in DOMAIN results THEN results[metricid] ELSE NewResult
    IN Put(results, metricid,
           [pkt_cnt |-> r.pkt_cnt + m.packets,
            bytes |-> r.bytes + m.bytes,
            uniq_src_ips |-> r.uniq_src_ips + m.srcips,
            uniq_dst_ips |-> r.uniq_dst_ips + m.destips])

\* update_tracker_results: the merged results with tally lastresult added
RECURSIVE update_tracker_results(_, _)
update_tracker_results(results, lastresult) ==
    IF DOMAIN lastresult = {} THEN results
    ELSE LET k == CHOOSE x \in DOMAIN lastresult : TRUE
             rest == [x \in (DOMAIN lastresult) \ {k} |-> lastresult[x]]
         IN update_tracker_results(AddTally(results, k, lastresult[k]), rest)

\* corsaro_report_merge_interval_results is called for interval T once every
\* processing thread has ended T
merge_interval_results_start(T) ==
    /\ failed = ""
    /\ merge.pc = "idle"
    /\ T = merge.fin + 1
    /\ \A p \in Procs : EndedInterval(state[p]) >= T
    /\ merge' = [IdleMerge EXCEPT !.pc = "polling", !.fin = T]
    /\ UNCHANGED <<procthreads, track, incoming, state, written, failed,
                   delivered, ghost>>

\* the body of the polling loop for tracker i with its mutex taken
merge_poll_tracker(i) ==
    /\ failed = ""
    /\ merge.pc = "polling"
    /\ i \notin merge.trackers_done
    /\ IF ~(merge.fin >= track[i].lastresultts)
       THEN /\ failed' = "merge_timestamp"
            /\ UNCHANGED <<merge, track>>
       ELSE IF track[i].lastresultts = merge.fin /\ track[i].lastresult = NULL
       THEN /\ failed' = "merge_null_result"
            /\ UNCHANGED <<merge, track>>
       ELSE IF track[i].lastresultts = merge.fin
       THEN /\ merge' = [merge EXCEPT
                            !.results = update_tracker_results(@, Deref(track[i].lastresult)),
                            !.trackers_done = @ \cup {i},
                            !.totaldone = (@ + 1) % U8]
            /\ track' = [track EXCEPT ![i].lastresult = NULL]
            /\ UNCHANGED failed
       ELSE /\ track[i].haltphase = 2
            /\ merge' = [merge EXCEPT !.trackers_done = @ \cup {i},
                                      !.totaldone = (@ + 1) % U8,
                                      !.skipresult = 1]
            /\ UNCHANGED <<track, failed>>
    /\ UNCHANGED <<procthreads, incoming, state, written, delivered, ghost>>

\* a variant of merge_interval_results_finish that writes the rows whatever
\* skipresult says
merge_interval_results_write ==
    /\ failed = ""
    /\ merge.pc = "polling"
    /\ ~(merge.totaldone < tracker_count)
    /\ written' = Put(written, merge.fin, merge.results)
    /\ merge' = [merge EXCEPT !.pc = "idle"]
    /\ UNCHANGED <<procthreads, track, incoming, state, failed, delivered, ghost>>

\* the polling loop is left: the rows are written unless skipresult is set
merge_interval_results_finish ==
    /\ failed = ""
    /\ merge.pc = "polling"
    /\ ~(merge.totaldone < tracker_count)
    /\ written' = IF merge.skipresult # 0 THEN written
                  ELSE Put(written, merge.fin, merge.results)
    /\ merge' = [merge EXCEPT !.pc = "idle"]
    /\ UNCHANGED <<procthreads, track, incoming, state, failed, delivered, ghost>>

\* ------------------------------------------------------------------- Spec
Next ==
    \/ \E p \in Procs : corsaro_report_start_interval(p)
    \/ \E p \in Procs, src \in {Addr1}, dst \in {Addr1, Addr2},
          iplen \in PacketLens :
            corsaro_report_process_packet(p, src, dst, iplen, NULL)
    \/ \E p \in Procs : corsaro_report_end_interval(p)
    \/ \E p \in Procs : corsaro_report_halt_processing(p)
    \/ \E p \in Procs : halt_processing_joined(p)
    \/ \E i \in Trackers : start_iptracker(i)
    \/ \E T \in Intervals : merge_interval_results_start(T)
    \/ \E i \in Trackers : merge_poll_tracker(i)
    \/ merge_interval_results_finish

Spec == Init /\ [][Next]_vars

\* ------------------------------------------------------------ TrackerSpec
\* One tracker thread (the one Addr1 and Addr3 hash to) is handed messages one
\* at a time, as if taken off its queue: update batches built by process_tags,
\* the interval messages of senders that end their intervals in order, interval
\* messages with any timestamp (repeated, old, zero), and halt messages.
\* state[p].current_interval is the interval sender p is in.
HT == trackerhash(Addr1)

TrackerInit ==
    /\ procthreads \in 1 .. MaxProcs
    /\ track = [i \in Trackers |-> NewTracker(procthreads)]
    /\ incoming = [i \in Trackers |-> <<>>]
    /\ state = [p \in AllProcs |->
                  [NewState(p) EXCEPT !.pc = "in", !.current_interval = 1]]
    /\ merge = IdleMerge
    /\ written = EmptyMap
    /\ failed = ""
    /\ delivered = NULL
    /\ ghost = [trk |-> [i \in Trackers |-> NewGhost],
                pkts |-> [T \in Intervals |-> NoPackets],
                npackets |-> 0, ndelivered |-> 0, irregular |-> FALSE,
                halting |-> FALSE]

\* the tracker takes msg
Deliver(msg) ==
    /\ failed = ""
    /\ track[HT].haltphase # 2
    /\ ghost.ndelivered < MaxDeliveries
    /\ Handle(HT, msg)
    /\ delivered' = Ptr(msg)
    /\ UNCHANGED <<procthreads, incoming, merge, written>>

\* an update batch of one body from sender p
UpdateMessage(st, body) ==
    [NewMessage(st.threadid) EXCEPT !.msgtype = 2, !.bodycount = 1,
                                    !.update = <<body>>,
                                    !.ival = st.current_interval]

deliver_update(p, addr, issrc, iplen, tags) ==
    /\ Deliver(UpdateMessage(state[p], process_tags(tags, iplen, addr, issrc)))
    /\ UNCHANGED state

\* sender p ends its interval and starts the next one
deliver_interval(p) ==
    /\ state[p].current_interval <= MaxTs
    /\ Deliver(IntervalMessage(state[p]))
    /\ state' = [state EXCEPT ![p].current_interval = @ + 1]

\* an interval message out of turn: any timestamp
deliver_stray_interval(p, ts) ==
    /\ Deliver([IntervalMessage(state[p]) EXCEPT !.timestamp = ts, !.kind = "stray"])
    /\ UNCHANGED state

deliver_halt(p) ==
    /\ Deliver(HaltMessage(state[p]))
    /\ UNCHANGED state

\* the merge thread takes the published tally (update_tracker_results)
collect_result ==
    /\ failed = ""
    /\ track[HT].lastresult # NULL
    /\ track' = [track EXCEPT ![HT].lastresult = NULL]
    /\ UNCHANGED <<procthreads, incoming, state, merge, written, failed,
                   delivered, ghost>>

TrackerNext ==
    \/ \E p \in Procs, addr \in {Addr1, Addr3}, issrc \in {0, 1},
          iplen \in {40}, tags \in {Ptr(TcpTags)} :
            deliver_update(p, addr, issrc, iplen, tags)
    \/ \E p \in Procs : deliver_interval(p)
    \/ \E p \in Procs, ts \in 0 .. MaxTs : deliver_stray_interval(p, ts)
    \/ \E p \in Procs : deliver_halt(p)
    \/ collect_result

TrackerSpec == TrackerInit /\ [][TrackerNext]_vars

\* ------------------------------------------------------------- MetricSpec
\* TrackerSpec started in the middle of interval 1: the tracker has already
\* applied the source-role bodies of sender 0 for TCP packets from Addr1 with
\* METRIC_ARRAY_SIZE - 3 different source ports, so that the metric array of
\* Addr1 is full (combined, protocol, destination port and the source ports)
\* and the next new metric converts it into the hash map.
PrefillMessage ==
    [NewMessage(0) EXCEPT
        !.msgtype = 2,
        !.bodycount = METRIC_ARRAY_SIZE - 3,
        !.update = [k \in 1 .. (METRIC_ARRAY_SIZE - 3) |->
                      process_tags(Ptr([TcpTags EXCEPT !.src_port = k]), 40, Addr1, 1)],
        !.ival = 1]

MetricInit ==
    /\ procthreads \in 1 .. MaxProcs
    /\ track = [i \in Trackers |->
                  IF i = HT THEN ApplyBodies(NewTracker(procthreads), PrefillMessage).trk
                  ELSE NewTracker(procthreads)]
    /\ incoming = [i \in Trackers |-> <<>>]
    /\ state = [p \in AllProcs |->
                  [NewState(p) EXCEPT !.pc = "in", !.current_interval = 1]]
    /\ merge = IdleMerge
    /\ written = EmptyMap
    /\ failed = ""
    /\ delivered = NULL
    /\ ghost = [trk |-> [i \in Trackers |->
                           IF i = HT THEN [NewGhost EXCEPT !.cur = {1}] ELSE NewGhost],
                pkts |-> [T \in Intervals |-> NoPackets],
                npackets |-> 0, ndelivered |-> 0, irregular |-> FALSE,
                halting |-> FALSE]

MetricSpec == MetricInit /\ [][TrackerNext]_vars

\* -------------------------------------------------------------- MergeSpec
\* The plugin from the middle of interval 1 on, with trackers that hold
\* tallies: each tracker of Filled has applied the source-role and the
\* destination-role body of one packet of 40 bytes of sender 0 for an address
\* that hashes to it, as the update branch of start_iptracker applies them.
\* Tracker 0 may have taken an update batch the way the code sends it (msgtype
\* as calloc left it) and have left its loop.  The processors end the interval
\* or halt, the trackers take their messages, the merge thread merges.
FilledAddr(i) ==
    IF i = trackerhash(Addr1) THEN Addr1
    ELSE IF i = trackerhash(Addr2) THEN Addr2
    ELSE i * (2^24) + 4

\* an update batch for tracker i as update_metrics_for_address fills it
BatchMessage(i) ==
    [NewMessage(0) EXCEPT
        !.bodycount = 1,
        !.update = <<process_tags(Ptr(TcpTags), 40, FilledAddr(i), 1)>>,
        !.ival = 1]

FillMessage(i) ==
    [NewMessage(0) EXCEPT
        !.msgtype = 2,
        !.bodycount = 2,
        !.update = <<process_tags(Ptr(TcpTags), 40, FilledAddr(i), 1),
                     process_tags(Ptr(TcpTags), 40, FilledAddr(i), 0)>>,
        !.ival = 1]

MergeInit ==
    /\ procthreads \in 1 .. MaxProcs
    /\ \E Filled \in SUBSET {trackerhash(Addr1), trackerhash(Addr2)},
          Batched \in SUBSET {0} :
          track = [i \in Trackers |->
                     IF i \in Filled
                     THEN ApplyBodies(NewTracker(procthreads), FillMessage(i)).trk
                     ELSE IF i \in Batched
                     THEN TrackerMessage(NewTracker(procthreads), BatchMessage(i)).trk
                     ELSE NewTracker(procthreads)]
    /\ incoming = [i \in Trackers |-> <<>>]
    /\ state = [p \in AllProcs |->
                  [NewState(p) EXCEPT !.pc = "in", !.current_interval = 1]]
    /\ merge = IdleMerge
    /\ written = EmptyMap
    /\ failed = ""
    /\ delivered = NULL
    /\ ghost = [trk |-> [i \in Trackers |->
                           IF track[i].currentresult # EmptyMap
                           THEN [NewGhost EXCEPT !.cur = {1}] ELSE NewGhost],
                pkts |-> [T \in Intervals |-> NoPackets],
                npackets |-> 0, ndelivered |-> 0, irregular |-> FALSE,
                halting |-> FALSE]

MergeNext ==
    \/ \E p \in Procs : corsaro_report_end_interval(p)
    \/ \E p \in Procs : corsaro_report_halt_processing(p)
    \/ \E p \in Procs : halt_processing_joined(p)
    \/ \E i \in Trackers : start_iptracker(i)
    \/ \E T \in Intervals : merge_interval_results_start(T)
    \/ \E i \in Trackers : merge_poll_tracker(i)
    \/ merge_interval_results_finish

MergeSpec == MergeInit /\ [][MergeNext]_vars

\* -------------------------------------------------------------- properties
\* a step in which the tracker of TrackerSpec is handed a message
Handed == ghost.ndelivered' = ghost.ndelivered + 1

\* the senders flagged for interval ts in the outstanding list
ReportedSenders(outl, ts) ==
    UNION {outl[k].reports_recvd : k \in {j \in 1 .. Len(outl) : outl[j].interval_ts = ts}}

\* C1: a tracker has published interval T only if it has processed an
\* INTERVAL(T) message from every one of its sourcethreads processors, and in
\* every outstanding entry reports_total is the number of distinct flagged
\* senders, so a repeated INTERVAL(T) of one processor is counted once.
C1_FinalizedAfterEveryProcessor ==
    \A i \in Trackers :
        /\ \A k \in 1 .. Len(ghost.trk[i].final) :
              \A p \in 0 .. (track[i].sourcethreads - 1) :
                  <<p, ghost.trk[i].final[k]>> \in ghost.trk[i].seen
        /\ \A k \in 1 .. Len(track[i].outstanding) :
              track[i].outstanding[k].reports_total =
                  Cardinality(track[i].outstanding[k].reports_recvd)

\* C1 witness: with two processors an interval was published after one
\* processor had repeated its INTERVAL message
C1_Witness ==
    /\ procthreads = 2
    /\ ghost.irregular
    /\ ghost.trk[HT].final # <<>>
    /\ track[HT].lastresultts = 1

\* C2: in the step in which a tracker processes the INTERVAL(T) message
\* (T # 0, T > lastresultts) that makes the processors having reported T all
\* N processors, it publishes T: lastresultts becomes T and the current tally
\* becomes lastresult. Stated for every N >= 1.
C2_FinalizesInSameStep ==
    [][(/\ Handed
        /\ Deref(delivered').msgtype = CORSARO_IP_MESSAGE_INTERVAL
        /\ ~StaleInterval(Deref(delivered').timestamp, track[HT].lastresultts)
        /\ ReportedSenders(track[HT].outstanding, Deref(delivered').timestamp)
               \cup {Deref(delivered').sender} = Procs)
       => (/\ track'[HT].lastresultts = Deref(delivered').timestamp
           /\ track'[HT].lastresult = Ptr(track[HT].currentresult))]_vars

\* C3: a batch of updates a processor has put on a tracker's queue is handled
\* as an update message: its bodies are applied by process_msg_body and
\* haltphase is left as it was.
C3_BatchHandledAsUpdate ==
    [][\A i \in Trackers :
          \* a step in which tracker i takes a message off its queue
          (/\ incoming[i] # <<>> /\ incoming'[i] = Tail(incoming[i])
           /\ Head(incoming[i]).kind = "update")
          => (/\ track'[i].haltphase = track[i].haltphase
              /\ track'[i] = ApplyBodies(track[i], Head(incoming[i])).trk)]_vars

\* the merged row of metricid written for interval T, a zeroed row when the
\* merger wrote none
MergedRow(T, metricid) ==
    IF metricid \in DOMAIN written[T] THEN written[T][metricid] ELSE NewResult

\* C4: for every interval the merger has written, with no processor having
\* asked the trackers to halt, the combined row has pkt_cnt equal to the number
\* of packets processed in the interval and bytes equal to the sum of their
\* IP lengths.
C4_CombinedRowCountsPackets ==
    \A T \in DOMAIN written :
        ~ghost.halting
        => /\ MergedRow(T, CombinedId).pkt_cnt = ghost.pkts[T].count
           /\ MergedRow(T, CombinedId).bytes = ghost.pkts[T].bytes

\* the tally of metricid in a tally map, a zeroed one when the map has none
TallyOf(tally, metricid) ==
    IF metricid \in DOMAIN tally THEN tally[metricid] ELSE NewTally

\* the update message handed to the tracker in this step, if it is one
HandedUpdate ==
    /\ Handed
    /\ Deref(delivered').msgtype # CORSARO_IP_MESSAGE_HALT
    /\ Deref(delivered').msgtype # CORSARO_IP_MESSAGE_INTERVAL

C6_RoutedBySenderFlag ==
    [][(HandedUpdate /\ failed' = "")
       => IF \E k \in 1 .. Len(track[HT].outstanding) :
                Deref(delivered').sender \in track[HT].outstanding[k].reports_recvd
          THEN /\ track'[HT].knownips = track[HT].knownips
               /\ track'[HT].currentresult = track[HT].currentresult
               /\ track'[HT].nextresult =
                      ApplyTags(track[HT].knownips_next, track[HT].nextresult,
                                Deref(delivered').update[1]).tally
               /\ track'[HT].knownips_next =
                      ApplyTags(track[HT].knownips_next, track[HT].nextresult,
                                Deref(delivered').update[1]).knownips
          ELSE /\ track'[HT].knownips_next = track[HT].knownips_next
               /\ track'[HT].nextresult = track[HT].nextresult
               /\ track'[HT].currentresult =
                      ApplyTags(track[HT].knownips, track[HT].currentresult,
                                Deref(delivered').update[1]).tally
               /\ track'[HT].knownips =
                      ApplyTags(track[HT].knownips, track[HT].currentresult,
                                Deref(delivered').update[1]).knownips]_vars

\* C6 witness: both pairs of maps hold bodies, and an entry is outstanding in
\* which one processor is flagged and the other is not
C6_Witness ==
    /\ procthreads = 2
    /\ Len(track[HT].outstanding) = 1
    /\ Cardinality(track[HT].outstanding[1].reports_recvd) = 1
    /\ track[HT].currentresult # EmptyMap
    /\ track[HT].nextresult # EmptyMap

\* the addresses of an IP map whose entry has the SRC (bit = 1) or the DST
\* (bit = 2) flag set for metricid
SeenIps(knownips, metricid, bit) ==
    {ip \in DOMAIN knownips : (MetVal(knownips[ip], metricid) \div bit) % 2 = 1}

\* every unique-IP counter of a tally map is the number of addresses of the IP
\* map seen with the metric in that role
CountedOnce(knownips, tally) ==
    \A metricid \in DOMAIN tally :
        /\ tally[metricid].srcips = Cardinality(SeenIps(knownips, metricid, 1))
        /\ tally[metricid].destips = Cardinality(SeenIps(knownips, metricid, 2))

\* C7: within one tracker and one interval the unique-IP counter of a metric
\* and role is incremented at most once for an address: srcips (destips) is
\* the number of addresses seen as source (destination) with the metric,
\* however many bodies were applied and in whichever order.
C7_UniqueCountedOnce ==
    \A i \in Trackers :
        /\ CountedOnce(track[i].knownips, track[i].currentresult)
        /\ CountedOnce(track[i].knownips_next, track[i].nextresult)

\* C7 witness: bodies were applied to the current maps for two addresses in
\* both roles, each counted once; the metrics of Addr1 are in the hash map
\* (the array was converted), those of Addr3 in the array
C7_Witness ==
    /\ DOMAIN track[HT].knownips = {Addr1, Addr3}
    /\ track[HT].knownips[Addr1].metriccount > METRIC_ARRAY_SIZE
    /\ track[HT].knownips[Addr3].metriccount <= METRIC_ARRAY_SIZE
    /\ track[HT].currentresult[CombinedId].srcips = 2
    /\ track[HT].currentresult[CombinedId].destips = 2
    /\ track[HT].currentresult[CombinedId].packets >= METRIC_ARRAY_SIZE - 1

\* the packets, bytes and srcips of every metric are the same in two tallies
SameSourceCounters(t1, t2) ==
    \A metricid \in (DOMAIN t1) \cup (DOMAIN t2) :
        /\ TallyOf(t1, metricid).packets = TallyOf(t2, metricid).packets
        /\ TallyOf(t1, metricid).bytes = TallyOf(t2, metricid).bytes
        /\ TallyOf(t1, metricid).srcips = TallyOf(t2, metricid).srcips

\* C8: applying a destination-role body changes no packets or bytes counter
\* (nor srcips) of any tally; only destips and the seen bits can change.
C8_DestinationAddsNoPackets ==
    [][(HandedUpdate /\ Deref(delivered').update[1].issrc = 0)
       => /\ SameSourceCounters(track[HT].currentresult, track'[HT].currentresult)
          /\ SameSourceCounters(track[HT].nextresult, track'[HT].nextresult)]_vars

\* C8 witness: a destination-role body of a packet of 40 bytes was applied, the
\* address is counted in destips, and no packet or byte was added
C8_Witness ==
    /\ delivered # NULL
    /\ Deref(delivered).kind = "update"
    /\ Deref(delivered).update[1].issrc = 0
    /\ CombinedId \in DOMAIN track[HT].currentresult
    /\ track[HT].currentresult[CombinedId].destips = 1
    /\ track[HT].currentresult[CombinedId].packets = 0
    /\ track[HT].currentresult[CombinedId].bytes = 0

\* C9: every update for an address is sent to tracker (addr >> 24) mod
\* tracker_count, an address is in the IP maps of one tracker at most, and
\* the merged uniq_src_ips / uniq_dst_ips of a metric is the number of
\* distinct source / destination addresses seen with it in the interval.
C9_UniqueIpsAcrossTrackers ==
    LET
        \* the updates queued for tracker i and the addresses in its IP maps are those
        \* that hash to i
        HashedTo(i) ==
            /\ \A k \in 1 .. Len(incoming[i]) : \A b \in 1 .. incoming[i][k].bodycount :
                  trackerhash(incoming[i][k].update[b].ipaddr) = i
            /\ \A ip \in (DOMAIN track[i].knownips) \cup (DOMAIN track[i].knownips_next) :
                  trackerhash(ip) = i
    IN
    /\ \A i \in Trackers : HashedTo(i)
    /\ \A T \in DOMAIN written :
          ~ghost.halting
          => /\ MergedRow(T, CombinedId).uniq_src_ips = Cardinality(ghost.pkts[T].srcs)
             /\ MergedRow(T, CombinedId).uniq_dst_ips = Cardinality(ghost.pkts[T].dsts)

\* C10: lastresultts of a tracker never decreases, and every write to it (an
\* interval is published) stores a value strictly greater than the one before.
C10_LastResultTsIncreases ==
    [][\A i \in Trackers :
          /\ track'[i].lastresultts >= track[i].lastresultts
          /\ Len(ghost'.trk[i].final) > Len(ghost.trk[i].final)
             => track'[i].lastresultts > track[i].lastresultts]_vars

\* C10 witness: interval 2 was published after interval 1, and INTERVAL
\* messages out of turn were handed to the tracker
C10_Witness ==
    /\ ghost.irregular
    /\ ghost.trk[HT].final = <<1, 2>>
    /\ track[HT].lastresultts = 2

\* the message handed to the tracker in this step is an INTERVAL message of
\* sender b with timestamp ts
HandedInterval(b, ts) ==
    /\ Handed
    /\ Deref(delivered').msgtype = CORSARO_IP_MESSAGE_INTERVAL
    /\ Deref(delivered').sender = b
    /\ Deref(delivered').timestamp = ts

\* outstanding entry k is an interval only processor a has reported
OnlyReportedBy(outl, k, a) ==
    outl[k].reports_recvd = {a} /\ outl[k].reports_total = 1

\* C11: with two processors, when the INTERVAL messages of A for two intervals
\* are outstanding and B's INTERVAL for the older one is processed, the older
\* interval is published in that step and the newer one stays outstanding;
\* when B's INTERVAL for the newer one is then processed, the newer interval
\* is published in that step, after the older one.
C11_OutOfOrderMarkers ==
    [][\A a, b \in Procs :
          (procthreads = 2 /\ a # b /\ Len(track[HT].outstanding) > 0
              /\ HandedInterval(b, track[HT].outstanding[1].interval_ts)
              /\ OnlyReportedBy(track[HT].outstanding, 1, a))
          => /\ Len(track[HT].outstanding) = 2
                   /\ OnlyReportedBy(track[HT].outstanding, 2, a)
                => /\ track'[HT].outstanding = Tail(track[HT].outstanding)
                   /\ track'[HT].lastresultts = track[HT].outstanding[1].interval_ts
                   /\ ghost'.trk[HT].final =
                          Append(ghost.trk[HT].final,
                                 track[HT].outstanding[1].interval_ts)
             /\ Len(track[HT].outstanding) = 1 /\ ghost.trk[HT].final # <<>>
                => /\ track'[HT].outstanding = <<>>
                   /\ track'[HT].lastresultts = track[HT].outstanding[1].interval_ts
                   /\ ghost'.trk[HT].final =
                          Append(ghost.trk[HT].final,
                                 track[HT].outstanding[1].interval_ts)]_vars

\* the sum of f[i] over the trackers
SumTrackers(f) ==
    LET sum[k \in -1 .. (tracker_count - 1)] ==
            IF k = -1 THEN 0 ELSE sum[k - 1] + f[k]
    IN sum[tracker_count - 1]

\* the tally tracker i has published for interval T, an empty one if none
PublishedTally(i, T) ==
    IF T \in DOMAIN ghost.trk[i].tallies THEN ghost.trk[i].tallies[T] ELSE EmptyMap

\* C12: the merger takes the tally of a tracker (lastresult goes back to NULL)
\* only in a poll that finds lastresultts equal to the interval being merged,
\* and only of a tracker not yet marked done; rows are written only when all
\* tracker_count trackers are marked done; and the rows written for an
\* interval are the per-metric sums of the trackers' tallies for it.
C12_MergedRowsAreTrackerSums ==
    [][/\ \A i \in Trackers :
             (track[i].lastresult # NULL /\ track'[i].lastresult = NULL)
             => /\ merge.pc = "polling"
                /\ track[i].lastresultts = merge.fin
                /\ i \notin merge.trackers_done
                /\ merge'.trackers_done = merge.trackers_done \cup {i}
       /\ written' # written
             => /\ merge.trackers_done = Trackers
                /\ DOMAIN written' = (DOMAIN written) \cup {merge.fin}
       /\ LET \* the rows written for T are the per-metric sums of the
              \* tallies the trackers have published for T
              RowsAreSums(T) ==
                  /\ DOMAIN written[T] = UNION {DOMAIN PublishedTally(i, T) : i \in Trackers}
                  /\ \A metricid \in DOMAIN written[T] :
                        /\ written[T][metricid].pkt_cnt =
                              SumTrackers([i \in Trackers |->
                                              TallyOf(PublishedTally(i, T), metricid).packets])
                        /\ written[T][metricid].bytes =
                              SumTrackers([i \in Trackers |->
                                              TallyOf(PublishedTally(i, T), metricid).bytes])
                        /\ written[T][metricid].uniq_src_ips =
                              SumTrackers([i \in Trackers |->
                                              TallyOf(PublishedTally(i, T), metricid).srcips])
                        /\ written[T][metricid].uniq_dst_ips =
                              SumTrackers([i \in Trackers |->
                                              TallyOf(PublishedTally(i, T), metricid).destips])
          IN \A T \in DOMAIN written' : RowsAreSums(T)']_vars

\* C12 witness: the rows of interval 1 were written with two trackers
\* contributing to the combined row
C12_Witness ==
    /\ 1 \in DOMAIN written
    /\ CombinedId \in DOMAIN written[1]
    /\ written[1][CombinedId].pkt_cnt = 2
    /\ written[1][CombinedId].bytes = 80
    /\ written[1][CombinedId].uniq_src_ips = 2
    /\ written[1][CombinedId].uniq_dst_ips = 2

\* tracker i has left its loop without having published interval T
HaltedWithout(i, T) ==
    track[i].haltphase = 2 /\ T \notin DOMAIN ghost.trk[i].tallies

\* C13: when the merger leaves the polling loop for interval T and some
\* tracker has halted without having published T, nothing is written; so
\* every interval with rows written was published by every tracker.
C13_NoRowsWhenTrackerHalted ==
    [][/\ (merge.pc = "polling" /\ merge'.pc = "idle"
            /\ \E i \in Trackers : HaltedWithout(i, merge.fin))
          => written' = written
       /\ \A T \in DOMAIN written' : \A i \in Trackers :
             T \in DOMAIN ghost'.trk[i].tallies]_vars

\* C13 witness: the merger has left the polling loop of interval 1 with the
\* tallies of other trackers summed, a tracker has halted without publishing
\* interval 1, and nothing was written
C13_Witness ==
    /\ merge.pc = "idle" /\ merge.fin = 1
    /\ merge.trackers_done = Trackers
    /\ merge.results # EmptyMap
    /\ \E i \in Trackers : HaltedWithout(i, 1)
    /\ written = EmptyMap

\* the message handed to the tracker in this step is a HALT message
HandedHalt ==
    Handed /\ Deref(delivered').msgtype = CORSARO_IP_MESSAGE_HALT

\* C14: a HALT taken with a non-empty outstanding list puts the tracker in the
\* drain state (haltphase 1), a HALT taken with an empty list makes it exit
\* (haltphase 2), and the tracker never exits while an entry remains in the
\* outstanding list.
C14_ExitsOnlyWhenDrained ==
    [][/\ (HandedHalt /\ track[HT].outstanding # <<>>) => track'[HT].haltphase = 1
       /\ (HandedHalt /\ track[HT].outstanding = <<>>) => track'[HT].haltphase = 2
       /\ track'[HT].haltphase = 2 => track'[HT].outstanding = <<>>]_vars

\* C15: once every processing thread has run the send loop of halt_processing
\* and tracker i has taken every message off its queue, tracker i is in
\* haltphase 2 (nothing can change its state any more, so this is where it
\* has to be for the join to return).
C15_HaltedOnceDelivered ==
    LET
        \* every processing thread has run the send loop of halt_processing
        AllHaltsSent ==
            \A p \in Procs : state[p].pc \in {"joining", "done"}
    IN
    \A i \in Trackers :
        (failed = "" /\ AllHaltsSent /\ incoming[i] = <<>>)
            => track[i].haltphase = 2

\* C16: with two or more processing threads a tracker that has left its loop
\* (haltphase 2) has taken off its queue every update batch and INTERVAL
\* message a processing thread enqueued ahead of that thread's HALT.
C16_DrainedBeforeExit ==
    LET
        \* tracker i's queue still holds an update batch or an interval message of a
        \* processing thread that has since put its HALT on the queue
        UnappliedBeforeHalt(i) ==
            \E k \in 1..Len(incoming[i]) :
                /\ incoming[i][k].kind # "halt"
                /\ state[incoming[i][k].sender].pc \in {"joining", "done"}
    IN
    procthreads >= 2 =>
        \A i \in Trackers :
            track[i].haltphase = 2 => ~UnappliedBeforeHalt(i)

\* ---------------------------------------------------------------- FairSpec
\* The whole plugin with the tracker threads and the merge thread scheduled
\* fairly: each is a thread of its own that polls in a loop (a tracker tries
\* its queue again after usleep(10), the merge thread takes another round
\* over the trackers after usleep(100)), so a step of theirs that stays
\* enabled is taken.  Nothing is assumed about the processing threads.
FairSpec ==
    /\ Spec
    /\ \A i \in Trackers : WF_vars(start_iptracker(i))
    /\ \A i \in Trackers : WF_vars(merge_poll_tracker(i))
    /\ WF_vars(merge_interval_results_finish)

\* C17: once the merge thread polls for an interval T that every processing
\* thread has ended, then unless a tracker halts the polling loop is left
\* with every tracker merged and the rows of T written.
C17_PollingTerminates ==
    \A T \in Intervals :
        \* the merge thread is in its polling loop for interval T
        (merge.pc = "polling" /\ merge.fin = T) ~>
            \/ /\ merge.pc = "idle"
               /\ merge.trackers_done = Trackers
               /\ T \in DOMAIN written
            \/ \E i \in Trackers : track[i].haltphase # 0

\* ---------------------------------------------------------------- LockSpec
\* The tracker thread of tracker HT and the merge thread, one step per stretch
\* of code between two operations on the tracker's mutex.  ghost holds the
\* thread that has the mutex (holder), the tracker's position (tpc), the
\* value update_outstanding returned (complete) and the accesses made so far
\* to lastresult and lastresultts (log), each with whether the accessing
\* thread held the mutex.  The other trackers have been polled already.
Access(g, who, field, write, line) ==
    [who |-> who, field |-> field, write |-> write, line |-> line,
     held |-> g.holder = who]

Logged(g, accesses) == [g EXCEPT !.log = @ \cup accesses]

LockInit ==
    /\ procthreads \in 1 .. MaxProcs
    /\ track = [i \in Trackers |-> NewTracker(procthreads)]
    /\ incoming = [i \in Trackers |-> <<>>]
    /\ state = [p \in AllProcs |->
                  [NewState(p) EXCEPT !.pc = "in", !.current_interval = 1]]
    /\ merge = IdleMerge
    /\ written = EmptyMap
    /\ failed = ""
    /\ delivered = NULL
    /\ ghost = [holder |-> "none", tpc |-> "get", complete |-> 0, log |-> {}]

\* libtrace_message_queue_try_get returns the next INTERVAL message of sender p
tracker_get_interval(p) ==
    /\ failed = ""
    /\ ghost.tpc = "get"
    /\ track[HT].haltphase # 2
    /\ state[p].current_interval <= MaxTs
    /\ delivered' = Ptr(IntervalMessage(state[p]))
    /\ state' = [state EXCEPT ![p].current_interval = @ + 1]
    /\ ghost' = [ghost EXCEPT !.tpc = "lock"]
    /\ UNCHANGED <<procthreads, track, incoming, merge, written, failed>>

\* libtrace_message_queue_try_get returns the HALT message of sender p
tracker_get_halt(p) ==
    /\ failed = ""
    /\ ghost.tpc = "get"
    /\ track[HT].haltphase = 0
    /\ delivered' = Ptr(HaltMessage(state[p]))
    /\ ghost' = [ghost EXCEPT !.tpc = "lock"]
    /\ UNCHANGED <<procthreads, track, incoming, state, merge, written, failed>>

\* pthread_mutex_lock at the head of the HALT and of the INTERVAL branch
tracker_lock ==
    /\ failed = ""
    /\ ghost.tpc = "lock"
    /\ ghost.holder = "none"
    /\ ghost' = [ghost EXCEPT !.holder = "tracker", !.tpc = "locked"]
    /\ UNCHANGED <<procthreads, track, incoming, state, merge, written, failed,
                   delivered>>

\* the HALT branch, or the INTERVAL branch up to the pthread_mutex_unlock that
\* follows update_outstanding
tracker_locked ==
    /\ failed = ""
    /\ ghost.tpc = "locked"
    /\ LET msg == Deref(delivered)
           trk == track[HT]
           rd == {Access(ghost, "tracker", "lastresultts", FALSE, 1021)}
           r == update_outstanding(trk.outstanding, msg.timestamp,
                                   trk.sourcethreads, msg.sender)
       IN IF msg.msgtype = CORSARO_IP_MESSAGE_HALT
          THEN /\ track' = [track EXCEPT ![HT] = HandleHalt(trk)]
               /\ ghost' = [ghost EXCEPT !.holder = "none", !.tpc = "get"]
               /\ UNCHANGED failed
          ELSE IF StaleInterval(msg.timestamp, trk.lastresultts)
          THEN /\ ghost' = [Logged(ghost, rd) EXCEPT !.holder = "none", !.tpc = "get"]
               /\ UNCHANGED <<track, failed>>
          ELSE IF ~r.ok
          THEN /\ failed' = "interval_order"
               /\ ghost' = Logged(ghost, rd)
               /\ UNCHANGED track
          ELSE /\ track' = [track EXCEPT ![HT].outstanding = r.outl]
               /\ ghost' = [Logged(ghost, rd) EXCEPT
                                !.holder = "none", !.complete = r.ret,
                                !.tpc = IF r.ret = 0 THEN "get" ELSE "check"]
               /\ UNCHANGED failed
    /\ UNCHANGED <<procthreads, incoming, state, merge, written, delivered>>

\* a variant of tracker_check that goes on to publish whatever lastresult holds
tracker_check_unasserted ==
    /\ failed = ""
    /\ ghost.tpc = "check"
    /\ ghost' = [Logged(ghost, {Access(ghost, "tracker", "lastresult", FALSE, 1039)})
                    EXCEPT !.tpc = "publish_lock"]
    /\ UNCHANGED <<procthreads, track, incoming, state, merge, written, failed,
                   delivered>>

\* the test of lastresult between the unlock and the next lock
tracker_check ==
    /\ failed = ""
    /\ ghost.tpc = "check"
    /\ failed' = IF track[HT].lastresult # NULL THEN "lastresult_pending" ELSE ""
    /\ ghost' = [Logged(ghost, {Access(ghost, "tracker", "lastresult", FALSE, 1039)})
                    EXCEPT !.tpc = "publish_lock"]
    /\ UNCHANGED <<procthreads, track, incoming, state, merge, written, delivered>>

\* pthread_mutex_lock before the result is published
tracker_publish_lock ==
    /\ failed = ""
    /\ ghost.tpc = "publish_lock"
    /\ ghost.holder = "none"
    /\ ghost' = [ghost EXCEPT !.holder = "tracker", !.tpc = "publish"]
    /\ UNCHANGED <<procthreads, track, incoming, state, merge, written, failed,
                   delivered>>

\* lastresult, lastresultts and haltphase are set, the mutex is released
tracker_publish ==
    /\ failed = ""
    /\ ghost.tpc = "publish"
    /\ track' = [track EXCEPT ![HT].lastresult = Ptr(track[HT].currentresult),
                              ![HT].lastresultts = ghost.complete,
                              ![HT].haltphase = IF @ = 1 THEN 2 ELSE @]
    /\ ghost' = [Logged(ghost, {Access(ghost, "tracker", "lastresult", TRUE, 1046),
                                Access(ghost, "tracker", "lastresultts", TRUE, 1047)})
                    EXCEPT !.holder = "none", !.tpc = "rotate"]
    /\ UNCHANGED <<procthreads, incoming, state, merge, written, failed, delivered>>

\* the maps of the next interval become the current ones
tracker_rotate ==
    /\ failed = ""
    /\ ghost.tpc = "rotate"
    /\ track' = [track EXCEPT ![HT].knownips = track[HT].knownips_next,
                              ![HT].currentresult = track[HT].nextresult,
                              ![HT].knownips_next = EmptyMap,
                              ![HT].nextresult = EmptyMap]
    /\ ghost' = [ghost EXCEPT !.tpc = "get"]
    /\ UNCHANGED <<procthreads, incoming, state, merge, written, failed, delivered>>

\* corsaro_report_merge_interval_results is called for interval T; only
\* tracker HT is left to poll
merger_start(T) ==
    /\ failed = ""
    /\ merge.pc = "idle"
    /\ T = merge.fin + 1
    /\ \A p \in Procs : EndedInterval(state[p]) >= T
    /\ merge' = [IdleMerge EXCEPT !.pc = "polling", !.fin = T,
                                  !.trackers_done = Trackers \ {HT},
                                  !.totaldone = tracker_count - 1]
    /\ UNCHANGED <<procthreads, track, incoming, state, written, failed,
                   delivered, ghost>>

\* pthread_mutex_trylock succeeds
merger_trylock ==
    /\ failed = ""
    /\ merge.pc = "polling"
    /\ HT \notin merge.trackers_done
    /\ ghost.holder = "none"
    /\ ghost' = [ghost EXCEPT !.holder = "merger"]
    /\ UNCHANGED <<procthreads, track, incoming, state, merge, written, failed,
                   delivered>>

\* the body of the polling loop up to pthread_mutex_unlock
merger_locked ==
    /\ failed = ""
    /\ ghost.holder = "merger"
    /\ LET trk == track[HT]
           ts == {Access(ghost, "merger", "lastresultts", FALSE, 2120),
                  Access(ghost, "merger", "lastresultts", FALSE, 2121)}
           res == {Access(ghost, "merger", "lastresult", FALSE, 2040),
                   Access(ghost, "merger", "lastresult", TRUE, 2065)}
       IN IF ~(merge.fin >= trk.lastresultts)
          THEN /\ failed' = "merge_timestamp"
               /\ ghost' = Logged(ghost, {Access(ghost, "merger", "lastresultts", FALSE, 2120)})
               /\ UNCHANGED <<merge, track>>
          ELSE IF trk.lastresultts = merge.fin
          THEN /\ merge' = [merge EXCEPT
                               !.results = update_tracker_results(@, Deref(trk.lastresult)),
                               !.trackers_done = @ \cup {HT},
                               !.totaldone = (@ + 1) % U8]
               /\ track' = [track EXCEPT ![HT].lastresult = NULL]
               /\ ghost' = [Logged(ghost, ts \cup res) EXCEPT !.holder = "none"]
               /\ UNCHANGED failed
          ELSE /\ merge' = IF trk.haltphase = 2
                           THEN [merge EXCEPT !.trackers_done = @ \cup {HT},
                                              !.totaldone = (@ + 1) % U8,
                                              !.skipresult = 1]
                           ELSE merge
               /\ ghost' = [Logged(ghost, ts) EXCEPT !.holder = "none"]
               /\ UNCHANGED <<track, failed>>
    /\ UNCHANGED <<procthreads, incoming, state, written, delivered>>

LockNext ==
    \/ \E p \in Procs : tracker_get_interval(p)
    \/ \E p \in Procs : tracker_get_halt(p)
    \/ tracker_lock
    \/ tracker_locked
    \/ tracker_check
    \/ tracker_publish_lock
    \/ tracker_publish
    \/ tracker_rotate
    \/ \E T \in 1 .. MaxTs : merger_start(T)
    \/ merger_trylock
    \/ merger_locked
    \/ merge_interval_results_finish

LockSpec == LockInit /\ [][LockNext]_vars

\* C18: every read and every write of lastresult and of lastresultts, by the
\* tracker thread or by the merge thread, is made by a thread that holds the
\* tracker's mutex.
C18_ResultAccessedUnderMutex ==
    \A a \in ghost.log : a.held

\* -------------------------------------------------------------- LengthSpec
\* MergeSpec with the IP length of the packet the trackers have tallied
\* drawn from PacketLens: extract_addresses takes it from the ip_len field of
\* the packet's header, which may hold any value from 0 to 65535
LengthMessage(i, iplen) ==
    [NewMessage(0) EXCEPT
        !.msgtype = 2,
        !.bodycount = 2,
        !.update = <<process_tags(Ptr(TcpTags), iplen, FilledAddr(i), 1),
                     process_tags(Ptr(TcpTags), iplen, FilledAddr(i), 0)>>,
        !.ival = 1]

LengthInit ==
    /\ procthreads \in 1 .. MaxProcs
    /\ \E Filled \in SUBSET {trackerhash(Addr1), trackerhash(Addr2)},
          iplen \in PacketLens :
          track = [i \in Trackers |->
                     IF i \in Filled
                     THEN ApplyBodies(NewTracker(procthreads),
                                      LengthMessage(i, iplen)).trk
                     ELSE NewTracker(procthreads)]
    /\ incoming = [i \in Trackers |-> <<>>]
    /\ state = [p \in AllProcs |->
                  [NewState(p) EXCEPT !.pc = "in", !.current_interval = 1]]
    /\ merge = IdleMerge
    /\ written = EmptyMap
    /\ failed = ""
    /\ delivered = NULL
    /\ ghost = [trk |-> [i \in Trackers |->
                           IF track[i].currentresult # EmptyMap
                           THEN [NewGhost EXCEPT !.cur = {1}] ELSE NewGhost],
                pkts |-> [T \in Intervals |-> NoPackets],
                npackets |-> 0, ndelivered |-> 0, irregular |-> FALSE,
                halting |-> FALSE]

LengthSpec == LengthInit /\ [][MergeNext]_vars

IpAddr(a, b, c, d) == ((a * 256 + b) * 256 + c) * 256 + d

S1 ==
    [interval |-> 100,
     packets |-> <<[src |-> IpAddr(1, 2, 3, 4), dst |-> IpAddr(5, 6, 7, 8), iplen |-> 40,
                    tags |-> TcpTags],
                   [src |-> IpAddr(1, 2, 3, 4), dst |-> IpAddr(9, 9, 9, 9), iplen |-> 60,
                    tags |-> [TcpTags EXCEPT !.dest_port = 443]],
                   [src |-> IpAddr(10, 0, 0, 1), dst |-> IpAddr(5, 6, 7, 8), iplen |-> 100,
                    tags |-> [TcpTags EXCEPT !.protocol = TRACE_IPPROTO_UDP,
                                             !.src_port = 53, !.dest_port = 5353]]>>]

S1Init ==
    /\ procthreads \in 1 .. MaxProcs
    /\ track = [i \in Trackers |-> NewTracker(procthreads)]
    /\ incoming = [i \in Trackers |-> <<>>]
    /\ state = [p \in AllProcs |->
                  [NewState(p) EXCEPT !.pc = "in", !.current_interval = S1.interval]]
    /\ merge = [IdleMerge EXCEPT !.fin = S1.interval - 1]
    /\ written = EmptyMap
    /\ failed = ""
    /\ delivered = NULL
    /\ ghost = [trk |-> [i \in Trackers |-> NewGhost],
                pkts |-> [T \in {S1.interval} |-> NoPackets],
                npackets |-> 0, ndelivered |-> 0, irregular |-> FALSE,
                halting |-> FALSE]

\* corsaro_report_process_packet of thread 0 for the next packet of S1
s1_process_packet ==
    /\ failed = ""
    /\ state[0].pc = "in"
    /\ ghost.npackets < Len(S1.packets)
    /\ LET pkt == S1.packets[ghost.npackets + 1]
           sq1 == update_metrics_for_address([st |-> state[0], q |-> incoming],
                                             pkt.src, 1, pkt.iplen, Ptr(pkt.tags))
           sq2 == update_metrics_for_address(sq1, pkt.dst, 0, pkt.iplen, Ptr(pkt.tags))
       IN /\ state' = [state EXCEPT ![0] = sq2.st]
          /\ incoming' = sq2.q
          /\ ghost' = CountPacket(ghost, S1.interval, pkt.src, pkt.dst, pkt.iplen)
    /\ UNCHANGED <<procthreads, track, merge, written, failed, delivered>>

\* thread p ends interval 100; thread 0 has processed its packets by then
s1_end_interval(p) ==
    /\ p = 0 => ghost.npackets = Len(S1.packets)
    /\ corsaro_report_end_interval(p)

S1Next ==
    \/ s1_process_packet
    \/ \E p \in Procs : s1_end_interval(p)
    \/ \E i \in Trackers : start_iptracker(i)
    \/ merge_interval_results_start(S1.interval)
    \/ \E i \in Trackers : merge_poll_tracker(i)
    \/ merge_interval_results_finish

S1Spec == S1Init /\ [][S1Next]_vars

\* the merge thread can do no more for the interval it is merging: the call
\* has returned, or no tracker it still polls has the result or has halted
MergerAtRest(T) ==
    /\ merge.fin = T
    /\ \/ merge.pc = "idle"
       \/ \A i \in Trackers \ merge.trackers_done :
             track[i].lastresultts # T /\ track[i].haltphase # 2

\* C21: with one processing thread, once scenario S1 has run its course the
\* rows of interval 100 are written and the row of the combined metric has
\* 3 packets, 200 bytes, 2 unique source and 3 unique destination addresses.
C21_ScenarioS1 ==
    LET
        \* every packet of S1 is processed, every thread has ended interval 100, the
        \* trackers have taken what they will take and the merger is at rest
        S1Done ==
            /\ ghost.npackets = Len(S1.packets)
            /\ \A p \in Procs : state[p].pc = "idle"
            /\ \A i \in Trackers : incoming[i] = <<>> \/ track[i].haltphase = 2
            /\ MergerAtRest(S1.interval)
    IN
    (procthreads = 1 /\ S1Done) =>
        /\ S1.interval \in DOMAIN written
        /\ MergedRow(S1.interval, CombinedId) =
              [pkt_cnt |-> 3, bytes |-> 200, uniq_src_ips |-> 2, uniq_dst_ips |-> 3]

\* C22: the send loop of end_interval and of halt_processing puts, for every
\* tracker, the pending update batch (if it holds a body) and then the
\* INTERVAL or HALT message on the tracker's queue and leaves the pending
\* bodycount 0; on every queue the update batches of an interval come before
\* their sender's INTERVAL message of that interval.
C22_FlushBeforeMarker ==
    /\ [][LET \* processing thread p runs the send loop of end_interval or
              \* of halt_processing in this step
              Flushes(p) ==
                  \/ state[p].pc = "in" /\ state'[p].pc = "idle"
                  \/ state[p].pc # "joining" /\ state'[p].pc = "joining"
              \* q1 is q with the messages of added put behind it
              Extended(q, q1, added) == q1 = q \o added
              \* msg is the marker thread p sends in this step
              IsMarkerOf(msg, p) ==
                  /\ msg.sender = state[p].threadid
                  /\ msg.bodycount = 0
                  /\ IF state'[p].pc = "joining"
                     THEN msg.msgtype = CORSARO_IP_MESSAGE_HALT
                     ELSE /\ msg.msgtype = CORSARO_IP_MESSAGE_INTERVAL
                          /\ msg.timestamp = state[p].current_interval
          IN \A p \in Procs : Flushes(p) =>
                \A i \in Trackers :
                  /\ state'[p].nextmsg[i].bodycount = 0
                  /\ IsMarkerOf(incoming'[i][Len(incoming'[i])], p)
                  /\ IF state[p].nextmsg[i].bodycount > 0
                     THEN Extended(incoming[i], incoming'[i],
                                   <<state[p].nextmsg[i],
                                     incoming'[i][Len(incoming'[i])]>>)
                     ELSE Extended(incoming[i], incoming'[i],
                                   <<incoming'[i][Len(incoming'[i])]>>)]_vars
    \* on a queue no update batch of an interval follows the INTERVAL message
    \* its sender has sent for that interval
    /\ [](\A i \in Trackers :
            \A a, b \in 1 .. Len(incoming[i]) :
                (/\ a < b
                 /\ incoming[i][a].msgtype = CORSARO_IP_MESSAGE_INTERVAL
                 /\ incoming[i][b].bodycount > 0
                 /\ incoming[i][b].sender = incoming[i][a].sender)
                    => incoming[i][b].ival # incoming[i][a].timestamp)

\* a queue holds an update batch directly followed by its sender's INTERVAL
\* message of the batch's interval
C22_Witness ==
    \E i \in Trackers : \E k \in 1 .. (Len(incoming[i]) - 1) :
        /\ incoming[i][k].bodycount > 0
        /\ incoming[i][k + 1].msgtype = CORSARO_IP_MESSAGE_INTERVAL
        /\ incoming[i][k + 1].sender = incoming[i][k].sender
        /\ incoming[i][k + 1].timestamp = incoming[i][k].ival

\* ----------------------------------------------------------------- TagSpec
\* process_tags on one address of one packet, for every tag set of TagInputs
\* (no tag set at all, every combination of provider bits, the protocols ICMP,
\* TCP, UDP and GRE, port values below and above the ICMP bound), followed by
\* the tracker's process_msg_body on the body.  ghost holds the arguments.
Providers == {"basic", "maxmind", "netacq", "pfx2as"}

TagInputs ==
    {NULL} \cup
    {Ptr([providers_used |-> P, protocol |-> pr, src_port |-> sp, dest_port |-> 80,
          maxmind_continent |-> 11, maxmind_country |-> 12,
          netacq_continent |-> 13, netacq_country |-> 14, prefixasn |-> 15]) :
        P \in SUBSET Providers,
        pr \in {TRACE_IPPROTO_ICMP, TRACE_IPPROTO_TCP, TRACE_IPPROTO_UDP, 47},
        sp \in {0, 300}}

TagInit ==
    /\ procthreads \in 1 .. MaxProcs
    /\ track = [i \in Trackers |-> NewTracker(procthreads)]
    /\ incoming = [i \in Trackers |-> <<>>]
    /\ state = [p \in AllProcs |->
                  [NewState(p) EXCEPT !.pc = "in", !.current_interval = 1]]
    /\ merge = IdleMerge
    /\ written = EmptyMap
    /\ failed = ""
    /\ delivered = NULL
    /\ \E tags \in TagInputs, issrc \in {0, 1}, iplen \in PacketLens :
          ghost = [tags |-> tags, iplen |-> iplen, addr |-> Addr1, issrc |-> issrc,
                   applied |-> FALSE]

\* process_tags fills in the body
tag_address ==
    /\ delivered = NULL
    /\ delivered' = Ptr(process_tags(ghost.tags, ghost.iplen, ghost.addr, ghost.issrc))
    /\ UNCHANGED <<procthreads, track, incoming, state, merge, written, failed, ghost>>

\* the tracker the address hashes to runs process_msg_body on the body
apply_tagged_body ==
    /\ delivered # NULL
    /\ ~ghost.applied
    /\ LET h == trackerhash(ghost.addr)
           r == process_msg_body(track[h], 0, Deref(delivered))
       IN /\ track' = [track EXCEPT ![h] = r.trk]
          /\ failed' = IF r.ok THEN "" ELSE "combined_first"
    /\ ghost' = [ghost EXCEPT !.applied = TRUE]
    /\ UNCHANGED <<procthreads, incoming, state, merge, written, delivered>>

TagNext == tag_address \/ apply_tagged_body

TagSpec == TagInit /\ [][TagNext]_vars

\* C23: every body process_tags fills in has at least one tag and the key of
\* the combined metric as its first tag, whatever the tag set (none, or no
\* provider bit set, included), and the tracker's assertion on the first tag
\* does not fail.
C23_CombinedTagFirst ==
    /\ delivered # NULL =>
          /\ Deref(delivered).numtags >= 1
          /\ Deref(delivered).tags[1] = CombinedId
    /\ failed # "combined_first"

\* the tracker has applied the body made for a packet without a tag set
C23_Witness ==
    /\ ghost.tags = NULL
    /\ ghost.applied
    /\ failed = ""
    /\ CombinedId \in DOMAIN track[trackerhash(ghost.addr)].currentresult

\* the metric classes of the tags of a body
ClassesOf(body) == {body.tags[k][1] : k \in 1 .. body.numtags}

\* C24: a body made from a tag set without the maxmind, netacq-edge and pfx2as
\* bits has the combined tag and basic tags only (IP protocol, and the port
\* or ICMP classes of its protocol); a geo-location or ASN tag is in a body
\* only when the bit of its provider is set.
C24_GeoTagsNeedProvider ==
    LET MaxmindClasses ==
            {CORSARO_METRIC_CLASS_MAXMIND_CONTINENT, CORSARO_METRIC_CLASS_MAXMIND_COUNTRY}
        NetacqClasses ==
            {CORSARO_METRIC_CLASS_NETACQ_CONTINENT, CORSARO_METRIC_CLASS_NETACQ_COUNTRY}
        BasicClasses ==
            {CORSARO_METRIC_CLASS_COMBINED, CORSARO_METRIC_CLASS_IP_PROTOCOL,
             CORSARO_METRIC_CLASS_ICMP_TYPE, CORSARO_METRIC_CLASS_ICMP_CODE,
             CORSARO_METRIC_CLASS_TCP_SOURCE_PORT, CORSARO_METRIC_CLASS_TCP_DEST_PORT,
             CORSARO_METRIC_CLASS_UDP_SOURCE_PORT, CORSARO_METRIC_CLASS_UDP_DEST_PORT}
        \* the port or ICMP classes a protocol may be tagged with
        ProtocolClasses(protocol) ==
            IF protocol = TRACE_IPPROTO_ICMP
            THEN {CORSARO_METRIC_CLASS_ICMP_TYPE, CORSARO_METRIC_CLASS_ICMP_CODE}
            ELSE IF protocol = TRACE_IPPROTO_TCP
            THEN {CORSARO_METRIC_CLASS_TCP_SOURCE_PORT, CORSARO_METRIC_CLASS_TCP_DEST_PORT}
            ELSE IF protocol = TRACE_IPPROTO_UDP
            THEN {CORSARO_METRIC_CLASS_UDP_SOURCE_PORT, CORSARO_METRIC_CLASS_UDP_DEST_PORT}
            ELSE {}
    IN
    (delivered # NULL /\ ghost.tags # NULL) =>
        LET used == Deref(ghost.tags).providers_used
            classes == ClassesOf(Deref(delivered))
        IN /\ used \cap {"maxmind", "netacq", "pfx2as"} = {} =>
                 /\ classes \subseteq BasicClasses
                 /\ classes \subseteq
                       {CORSARO_METRIC_CLASS_COMBINED, CORSARO_METRIC_CLASS_IP_PROTOCOL}
                           \cup ProtocolClasses(Deref(ghost.tags).protocol)
           /\ classes \cap MaxmindClasses # {} => "maxmind" \in used
           /\ classes \cap NetacqClasses # {} => "netacq" \in used
           /\ CORSARO_METRIC_CLASS_PREFIX_ASN \in classes => "pfx2as" \in used

\* a body made for a TCP packet tagged by the basic tagger only: the combined
\* tag, the protocol and the two ports
C24_Witness ==
    /\ delivered # NULL
    /\ ghost.tags # NULL
    /\ Deref(ghost.tags).providers_used = {"basic"}
    /\ Deref(ghost.tags).protocol = TRACE_IPPROTO_TCP
    /\ ClassesOf(Deref(delivered)) =
          {CORSARO_METRIC_CLASS_COMBINED, CORSARO_METRIC_CLASS_IP_PROTOCOL,
           CORSARO_METRIC_CLASS_TCP_SOURCE_PORT, CORSARO_METRIC_CLASS_TCP_DEST_PORT}

\* ----------------------------------------------------------------- KeySpec
\* The two GEN_METRICID macros applied to two (class, value) pairs a and b
\* held in ghost; delivered holds the two keys.  A 64 bit key is kept as its
\* two 32 bit halves <<upper, lower>>; classes and values are 32 bit numbers.
\*
\* GEN_METRICID of report_internal.h:
\*     ((((uint64_t) class) << 32) + ((uint64_t)val) & 0xFFFFFFFF)
\* In C the + binds tighter than the &, so this is
\* ((class << 32) + val) & 0xFFFFFFFF: the sum has upper half class and lower
\* half val, and the mask keeps the lower half only.
GEN_METRICID_INTERNAL(class, val) ==
    LET shifted == <<class, 0>>
        sum == <<shifted[1], shifted[2] + val>>
    IN <<0, sum[2]>>

KeyInit ==
    /\ procthreads \in 1 .. MaxProcs
    /\ track = [i \in Trackers |-> NewTracker(procthreads)]
    /\ incoming = [i \in Trackers |-> <<>>]
    /\ state = [p \in AllProcs |-> NewState(p)]
    /\ merge = IdleMerge
    /\ written = EmptyMap
    /\ failed = ""
    /\ delivered = NULL
    /\ \E c1, c2 \in {CORSARO_METRIC_CLASS_COMBINED,
                       CORSARO_METRIC_CLASS_MAXMIND_CONTINENT,
                       CORSARO_METRIC_CLASS_TCP_DEST_PORT,
                       CORSARO_METRIC_CLASS_ICMP_TYPE},
          v1, v2 \in {0, 1, 80, METRIC_PORT_MAX - 1} :
          ghost = [a |-> <<c1, v1>>, b |-> <<c2, v2>>, header |-> ""]

\* the keys of a and b by the macro of corsaro_report.c (libcorsaro3) or of
\* report_internal.h (libcorsaro)
gen_metricid(header) ==
    /\ delivered = NULL
    /\ delivered' =
          IF header = "corsaro_report.c"
          THEN Ptr([a |-> GEN_METRICID(ghost.a[1], ghost.a[2]),
                    b |-> GEN_METRICID(ghost.b[1], ghost.b[2])])
          ELSE Ptr([a |-> GEN_METRICID_INTERNAL(ghost.a[1], ghost.a[2]),
                    b |-> GEN_METRICID_INTERNAL(ghost.b[1], ghost.b[2])])
    /\ ghost' = [ghost EXCEPT !.header = header]
    /\ UNCHANGED <<procthreads, track, incoming, state, merge, written, failed>>

KeySpec ==
    KeyInit /\ [][\E header \in {"corsaro_report.c", "report_internal.h"} :
                    gen_metricid(header)]_vars

\* C25: the key GEN_METRICID makes of (class, val) has the class as its upper
\* 32 bits and val as its lower 32 bits, so that two different pairs have
\* different keys; for the macro of either file.
C25_KeyKeepsClassAndValue ==
    delivered # NULL =>
        /\ Deref(delivered).a = <<ghost.a[1], ghost.a[2]>>
        /\ Deref(delivered).b = <<ghost.b[1], ghost.b[2]>>
        /\ ghost.a # ghost.b => Deref(delivered).a # Deref(delivered).b

\* -------------------------------------------------------------- ConfigSpec
\* corsaro_report_parse_config and corsaro_report_finalise_config of
\* libcorsaro/plugins/report/corsaro_report.c applied to a configuration that
\* holds either one port range option, or a limitmetrics and a geo_mode
\* option.  ghost holds the options, delivered holds conf.
\*
\* A YAML node of a range list is [scalar |-> FALSE] or a scalar
\* [scalar |-> TRUE, dash, first, last]: dash tells whether the text holds a
\* '-', first and last are what strtoul (libc) makes of the text before and
\* after the dash, [val, errno].  A node of limitmetrics is
\* [scalar |-> FALSE] or [scalar |-> TRUE, name].
\*
\* conf->allowedmetricclasses is kept as the set of the bits that are set in
\* it: 0 is {}, | is \cup, & ~ is \, and & (1 << c) tests c for membership.
CORSARO_METRIC_CLASS_ICMP_TYPECODE == 11
CORSARO_METRIC_CLASS_NETACQ_REGION == 12
CORSARO_METRIC_CLASS_NETACQ_POLYGON == 13
CORSARO_METRIC_CLASS_IPINFO_CONTINENT == 14
CORSARO_METRIC_CLASS_IPINFO_COUNTRY == 15
CORSARO_METRIC_CLASS_IPINFO_REGION == 16
CORSARO_METRIC_CLASS_IPINFO_COUNTRY_PREFIX_ASN == 17
CORSARO_METRIC_CLASS_IPINFO_REGION_PREFIX_ASN == 18
CORSARO_METRIC_CLASS_FILTER_CRITERIA == 19

IS_METRIC_ALLOWED(allowedmetrics, metric) ==
    allowedmetrics = {} \/ metric \in allowedmetrics

\* parse_metric_limits from item n of metlist on
RECURSIVE parse_metric_limits(_, _, _)
parse_metric_limits(allowedmetricclasses, metlist, n) ==
    IF n > Len(metlist) THEN allowedmetricclasses
    ELSE
    LET node == metlist[n]
        classes(name) ==
            CASE name = "basic" ->
                    {CORSARO_METRIC_CLASS_COMBINED,
                     CORSARO_METRIC_CLASS_IP_PROTOCOL}
              [] name = "tcpports" ->
                    {CORSARO_METRIC_CLASS_TCP_SOURCE_PORT,
                     CORSARO_METRIC_CLASS_TCP_DEST_PORT}
              [] name = "udpports" ->
                    {CORSARO_METRIC_CLASS_UDP_SOURCE_PORT,
                     CORSARO_METRIC_CLASS_UDP_DEST_PORT}
              [] name = "icmp" -> {CORSARO_METRIC_CLASS_ICMP_TYPECODE}
              [] name = "netacq" ->
                    {CORSARO_METRIC_CLASS_NETACQ_CONTINENT,
                     CORSARO_METRIC_CLASS_NETACQ_COUNTRY,
                     CORSARO_METRIC_CLASS_NETACQ_REGION,
                     CORSARO_METRIC_CLASS_NETACQ_POLYGON}
              [] name = "maxmind" ->
                    {CORSARO_METRIC_CLASS_MAXMIND_CONTINENT,
                     CORSARO_METRIC_CLASS_MAXMIND_COUNTRY}
              [] name = "ipinfo" ->
                    {CORSARO_METRIC_CLASS_IPINFO_CONTINENT,
                     CORSARO_METRIC_CLASS_IPINFO_REGION,
                     CORSARO_METRIC_CLASS_IPINFO_COUNTRY}
              [] name = "pfx2asn" ->
                    {CORSARO_METRIC_CLASS_PREFIX_ASN,
                     CORSARO_METRIC_CLASS_IPINFO_COUNTRY_PREFIX_ASN,
                     CORSARO_METRIC_CLASS_IPINFO_REGION_PREFIX_ASN}
              [] name = "filter" -> {CORSARO_METRIC_CLASS_FILTER_CRITERIA}
              [] OTHER -> {}
    IN IF ~node.scalar THEN {}
       ELSE parse_metric_limits(allowedmetricclasses \cup classes(node.name),
                                metlist, n + 1)

PORT_ARRAY_SIZE == 8192

\* 0xFFFFFFFF in the code: a value above every port strtoport returns
INVALID_PORT == -1

strtoport(parsed, capmax) ==
    IF parsed.errno # 0 THEN INVALID_PORT
    ELSE IF parsed.val > 65535 /\ capmax = FALSE THEN INVALID_PORT
    ELSE IF parsed.val > 65535 THEN 65535
    ELSE parsed.val

\* the body of the loop over the bytes of port_array for one range
\* first .. last, l.260-287: byte index gets toadd or'ed in
set_port_range(port_array, first, last) ==
    LET And(a, b) ==
            LET bit(j) == ((a \div 2^j) % 2) * ((b \div 2^j) % 2)
            IN bit(0) + 2 * bit(1) + 4 * bit(2) + 8 * bit(3) + 16 * bit(4)
                 + 32 * bit(5) + 64 * bit(6) + 128 * bit(7)
        Or(a, b) == a + b - And(a, b)
        firstindex == first \div 8
        toadd(index) ==
            LET msb == index * 8
                lsb == msb + 7
                t0 == 255
                t1 == IF first > msb
                      THEN IF first - msb >= 8 THEN 0
                           ELSE And(t0, 255 \div 2^(first - msb))
                      ELSE t0
            IN IF last < lsb
               THEN IF lsb - last >= 8 THEN 0
                    ELSE And(t1, 255 * 2^(lsb - last))
               ELSE t1
    IN [index \in 0 .. (PORT_ARRAY_SIZE - 1) |->
          IF index >= firstindex /\ ~(index * 8 > last)
          THEN Or(port_array[index], toadd(index))
          ELSE port_array[index]]

\* parse_port_ranges from item n of rangelist on; r is
\* [port_array, seen_flag]
RECURSIVE parse_port_ranges(_, _, _)
parse_port_ranges(r, rangelist, n) ==
    IF n > Len(rangelist) THEN r
    ELSE
    LET node == rangelist[n]
    IN IF ~node.scalar THEN r
       ELSE
       LET first == strtoport(node.first, FALSE)
           last == IF ~node.dash THEN first
                   ELSE IF first = INVALID_PORT THEN INVALID_PORT
                   ELSE strtoport(node.last, TRUE)
       IN IF first = INVALID_PORT \/ last = INVALID_PORT \/ last < first
          THEN parse_port_ranges(r, rangelist, n + 1)
          ELSE
          LET cleared == IF r.seen_flag = FALSE
                         THEN [index \in 0 .. (PORT_ARRAY_SIZE - 1) |-> 0]
                         ELSE r.port_array
          IN parse_port_ranges(
                 [port_array |-> set_port_range(cleared, first, last),
                  seen_flag |-> TRUE], rangelist, n + 1)

\* conf is malloc'ed: the bytes of the four arrays are whatever the heap
\* held, the same value fill in every byte here.  limitmetrics is NULL when
\* the option is absent, geo_mode is "" when it is absent.
ConfigInit ==
    /\ procthreads = 1
    /\ track = [i \in Trackers |-> NewTracker(procthreads)]
    /\ incoming = [i \in Trackers |-> <<>>]
    /\ state = [p \in AllProcs |-> NewState(p)]
    /\ merge = IdleMerge
    /\ written = EmptyMap
    /\ failed = ""
    /\ delivered = NULL
    /\ LET ok(v) == [val |-> v, errno |-> 0]
           single(first) ==
               [scalar |-> TRUE, dash |-> FALSE, first |-> first,
                last |-> ok(0)]
           range(first, last) ==
               [scalar |-> TRUE, dash |-> TRUE, first |-> ok(first),
                last |-> ok(last)]
           RangeNodes ==
               { [scalar |-> FALSE], single(ok(80)), single(ok(70000)),
                 single([val |-> 0, errno |-> 34]), range(0, 8), range(9, 7),
                 range(65530, 70000) }
           MetricNodes ==
               { [scalar |-> FALSE] } \cup
               { [scalar |-> TRUE, name |-> name] :
                   name \in {"basic", "tcpports", "udpports", "icmp", "netacq",
                             "maxmind", "ipinfo", "pfx2asn", "filter",
                             "other"} }
       IN \/ \E key \in {"tcp_source_port_range", "tcp_dest_port_range",
                         "udp_source_port_range", "udp_dest_port_range"},
                n1, n2 \in RangeNodes, fill \in {0, 165} :
                \E rangelist \in {<<>>, <<n1>>, <<n1, n2>>} :
                   ghost = [key |-> key, rangelist |-> rangelist,
                            fill |-> fill, limitmetrics |-> NULL,
                            geo_mode |-> "", parsed |-> {}]
          \/ \E m1, m2 \in MetricNodes, geo_mode \in {"", "lite", "full"} :
                \E limitmetrics \in {NULL, Ptr(<<>>), Ptr(<<m1>>),
                                     Ptr(<<m1, m2>>)} :
                   ghost = [key |-> "", rangelist |-> <<>>, fill |-> 0,
                            limitmetrics |-> limitmetrics,
                            geo_mode |-> geo_mode, parsed |-> {}]

corsaro_report_parse_config ==
    /\ delivered = NULL
    /\ LET parsed(key) ==
              LET malloced == [port_array |->
                                  [index \in 0 .. (PORT_ARRAY_SIZE - 1) |->
                                      ghost.fill],
                               seen_flag |-> FALSE]
                  r == IF ghost.key = key
                       THEN parse_port_ranges(malloced, ghost.rangelist, 1)
                       ELSE malloced
              IN IF r.seen_flag = FALSE
                 THEN [index \in 0 .. (PORT_ARRAY_SIZE - 1) |-> 255]
                 ELSE r.port_array
       IN delivered' =
             Ptr([allowedports |->
                     [tcp_sources |-> parsed("tcp_source_port_range"),
                      tcp_dests |-> parsed("tcp_dest_port_range"),
                      udp_sources |-> parsed("udp_source_port_range"),
                      udp_dests |-> parsed("udp_dest_port_range")],
                  allowedmetricclasses |->
                     IF ghost.limitmetrics = NULL THEN {}
                     ELSE parse_metric_limits({}, Deref(ghost.limitmetrics),
                                              1),
                  geomode |-> IF ghost.geo_mode = "lite"
                              THEN "REPORT_GEOMODE_LITE"
                              ELSE "REPORT_GEOMODE_FULL",
                  finalised |-> FALSE])
    /\ UNCHANGED <<procthreads, track, incoming, state, merge, written, failed,
                   ghost>>

\* the part of corsaro_report_finalise_config that changes the options;
\* ghost.parsed keeps allowedmetricclasses as parse_config left it
corsaro_report_finalise_config ==
    /\ delivered # NULL
    /\ ~Deref(delivered).finalised
    /\ LET conf == Deref(delivered)
           todisable == {CORSARO_METRIC_CLASS_NETACQ_REGION,
                         CORSARO_METRIC_CLASS_NETACQ_POLYGON,
                         CORSARO_METRIC_CLASS_IPINFO_REGION}
       IN /\ delivered' =
                Ptr([conf EXCEPT
                       !.allowedmetricclasses =
                          IF /\ \/ CORSARO_METRIC_CLASS_NETACQ_CONTINENT \in @
                                \/ CORSARO_METRIC_CLASS_IPINFO_CONTINENT \in @
                                \/ CORSARO_METRIC_CLASS_MAXMIND_CONTINENT \in @
                             /\ conf.geomode = "REPORT_GEOMODE_LITE"
                          THEN @ \ todisable
                          ELSE @,
                       !.finalised = TRUE])
          /\ ghost' = [ghost EXCEPT !.parsed = conf.allowedmetricclasses]
    /\ UNCHANGED <<procthreads, track, incoming, state, merge, written,
                   failed>>

ConfigSpec ==
    ConfigInit /\ [][\/ corsaro_report_parse_config
                     \/ corsaro_report_finalise_config]_vars

\* C26: after corsaro_report_parse_config, a port bitmap for which no valid
\* range entry was configured allows every port 0..65535; otherwise the bit of
\* port p (byte p div 8, mask 0x80 >> (p mod 8)) is set if and only if p lies
\* inside one of the valid configured ranges first..last, last capped at
\* 65535.  Every port is allowed when all eight bits of each byte are set;
\* port p = 8 * index + j has mask 0x80 >> j = 2^(7 - j).  An entry is valid
\* when it is a scalar whose first port converts to at most 65535, whose last
\* port converts, and first <= last.
C26_BitmapIsUnionOfRanges ==
    delivered # NULL =>
        LET lastof(node) == IF node.dash THEN node.last.val ELSE node.first.val
            valid(key) ==
                IF ghost.key # key THEN {}
                ELSE { node \in { ghost.rangelist[n] :
                                   n \in 1 .. Len(ghost.rangelist) } :
                        /\ node.scalar
                        /\ node.first.errno = 0
                        /\ node.first.val <= 65535
                        /\ node.dash => node.last.errno = 0
                        /\ node.first.val <= lastof(node) }
            holds(ranges, port_array) ==
                IF ranges = {}
                THEN \A index \in 0 .. (PORT_ARRAY_SIZE - 1) :
                        port_array[index] = 255
                ELSE \A index \in 0 .. (PORT_ARRAY_SIZE - 1), j \in 0 .. 7 :
                        LET p == 8 * index + j
                        IN (port_array[index] \div 2^(7 - j)) % 2 = 1 <=>
                              \E node \in ranges :
                                 node.first.val <= p /\ p <= lastof(node)
        IN /\ holds(valid("tcp_source_port_range"),
                    Deref(delivered).allowedports.tcp_sources)
           /\ holds(valid("tcp_dest_port_range"), Deref(delivered).allowedports.tcp_dests)
           /\ holds(valid("udp_source_port_range"),
                    Deref(delivered).allowedports.udp_sources)
           /\ holds(valid("udp_dest_port_range"), Deref(delivered).allowedports.udp_dests)

\* C27: when geo_mode is LITE, after corsaro_report_finalise_config
\* IS_METRIC_ALLOWED is false for the region level classes NETACQ_REGION,
\* NETACQ_POLYGON and IPINFO_REGION, whatever limitmetrics holds and also when
\* there is no limitmetrics option; a continent or country class that was
\* allowed before finalise_config is allowed after it.
C27_LiteDisablesRegions ==
    (delivered # NULL /\ Deref(delivered).finalised
        /\ Deref(delivered).geomode = "REPORT_GEOMODE_LITE") =>
        /\ \A c \in {CORSARO_METRIC_CLASS_NETACQ_REGION,
                     CORSARO_METRIC_CLASS_NETACQ_POLYGON,
                     CORSARO_METRIC_CLASS_IPINFO_REGION} :
              ~IS_METRIC_ALLOWED(Deref(delivered).allowedmetricclasses, c)
        /\ \A c \in {CORSARO_METRIC_CLASS_MAXMIND_CONTINENT,
                     CORSARO_METRIC_CLASS_MAXMIND_COUNTRY,
                     CORSARO_METRIC_CLASS_NETACQ_CONTINENT,
                     CORSARO_METRIC_CLASS_NETACQ_COUNTRY,
                     CORSARO_METRIC_CLASS_IPINFO_CONTINENT,
                     CORSARO_METRIC_CLASS_IPINFO_COUNTRY} :
              IS_METRIC_ALLOWED(ghost.parsed, c) =>
                 IS_METRIC_ALLOWED(Deref(delivered).allowedmetricclasses, c)

\* --------------------------------------------------------------- WriteSpec
\* The end of corsaro_report_merge_interval_results (l.2148-2179): the merged
\* results are written.  ghost holds what the merger has and what the Avro
\* library will answer: skipresult, the state of the writer ("active",
\* "started" when corsaro_start_avro_writer succeeds, "noname" when
\* derive_output_name returns NULL, "nostart" when the start fails), and for
\* each result of the map what write_single_metric returns for it.
\* delivered holds the return values.
AVRO_CONVERSION_FAILURE == -1
AVRO_WRITE_FAILURE == -2

\* write_all_metrics from result n of the map on: ret is what
\* write_single_metric returns for result n
RECURSIVE write_all_metrics(_, _, _, _)
write_all_metrics(resultmap, n, stopwriting, haderror) ==
    IF n > Len(resultmap) THEN haderror
    ELSE IF stopwriting = 0
    THEN LET ret == resultmap[n]
         IN write_all_metrics(resultmap, n + 1,
                              IF ret = AVRO_WRITE_FAILURE THEN 1
                              ELSE stopwriting,
                              IF ret < 0 THEN 1 ELSE haderror)
    ELSE write_all_metrics(resultmap, n + 1, stopwriting, haderror)

WriteInit ==
    /\ procthreads = 1
    /\ track = [i \in Trackers |-> NewTracker(procthreads)]
    /\ incoming = [i \in Trackers |-> <<>>]
    /\ state = [p \in AllProcs |-> NewState(p)]
    /\ merge = IdleMerge
    /\ written = EmptyMap
    /\ failed = ""
    /\ delivered = NULL
    /\ \E skipresult \in {0, 1},
          writer \in {"active", "started", "noname", "nostart"},
          r1, r2, r3 \in {0, AVRO_CONVERSION_FAILURE, AVRO_WRITE_FAILURE} :
          \E resultmap \in {<<>>, <<r1>>, <<r1, r2>>, <<r1, r2, r3>>} :
             ghost = [skipresult |-> skipresult, writer |-> writer,
                      resultmap |-> resultmap]

\* delivered.ret is what corsaro_report_merge_interval_results returns,
\* delivered.wrote what write_all_metrics returned (NULL when not called)
merge_write_results ==
    /\ delivered = NULL
    /\ delivered' =
          IF ghost.skipresult # 0 THEN Ptr([ret |-> 0, wrote |-> NULL])
          ELSE IF ghost.writer \in {"noname", "nostart"}
          THEN Ptr([ret |-> -1, wrote |-> NULL])
          ELSE LET wrote == write_all_metrics(ghost.resultmap, 1, 0, 0)
               IN Ptr([ret |-> IF wrote < 0 THEN -1 ELSE 0,
                       wrote |-> Ptr(wrote)])
    /\ UNCHANGED <<procthreads, track, incoming, state, merge, written, failed,
                   ghost>>

WriteSpec == WriteInit /\ [][merge_write_results]_vars

\* C28: write_all_metrics returns -1 when converting or writing one of the
\* results fails and 0 otherwise, and corsaro_report_merge_interval_results
\* returns -1 when a result could not be written.
C28_WriteFailureReported ==
    (delivered # NULL /\ Deref(delivered).wrote # NULL) =>
        LET anyfails == \E n \in 1 .. Len(ghost.resultmap) :
                           ghost.resultmap[n] < 0
        IN /\ Deref(Deref(delivered).wrote) = (IF anyfails THEN -1 ELSE 0)
           /\ anyfails => Deref(delivered).ret = -1

\* C29: when update_outstanding completes interval T (the tracker publishes
\* T), the entry of T and every entry in front of it leave the outstanding
\* list, and the entries behind it stay, in their order and with their sender
\* flags and report counts.
C29_PopKeepsLaterEntries ==
    [][(Handed /\ track'[HT].lastresultts # track[HT].lastresultts)
       => LET outl == track[HT].outstanding
          IN \E k \in 1 .. Len(outl) :
                /\ outl[k].interval_ts = track'[HT].lastresultts
                /\ track'[HT].outstanding =
                      [j \in 1 .. (Len(outl) - k) |-> outl[k + j]]]_vars

\* C29 witness: interval 1 has just been completed while the entry of
\* interval 2, reported by one sender, stays in the list
C29_Witness ==
    /\ delivered # NULL
    /\ Deref(delivered).msgtype = CORSARO_IP_MESSAGE_INTERVAL
    /\ Deref(delivered).timestamp = 1
    /\ track[HT].lastresultts = 1
    /\ Len(track[HT].outstanding) = 1
    /\ track[HT].outstanding[1].interval_ts = 2
    /\ track[HT].outstanding[1].reports_total = 1

\* C30: in the step in which a tracker finalizes T, the published lastresult
\* becomes the former current tally, the current IP map and tally become the
\* former next-interval IP map and tally, and the next-interval IP map and
\* tally become empty.
C30_MapsRotateOnFinalize ==
    [][(Handed /\ track'[HT].lastresultts # track[HT].lastresultts)
       => /\ track'[HT].lastresult = Ptr(track[HT].currentresult)
          /\ track'[HT].knownips = track[HT].knownips_next
          /\ track'[HT].currentresult = track[HT].nextresult
          /\ track'[HT].knownips_next = EmptyMap
          /\ track'[HT].nextresult = EmptyMap]_vars

\* C30 witness: interval 1 has just been finalized with a tally, and the
\* updates a sender made after it had ended interval 1 are in the current maps
C30_Witness ==
    /\ delivered # NULL
    /\ Deref(delivered).msgtype = CORSARO_IP_MESSAGE_INTERVAL
    /\ track[HT].lastresultts = 1
    /\ track[HT].lastresult # NULL
    /\ Deref(track[HT].lastresult) # EmptyMap
    /\ track[HT].currentresult # EmptyMap
    /\ track[HT].knownips # EmptyMap
    /\ track[HT].knownips_next = EmptyMap
    /\ track[HT].nextresult = EmptyMap

\* --------------------------------------------------------------- BatchSpec
\* Spec from the middle of interval 1 on: processing thread 0 has already put
\* REPORT_BATCH_SIZE - 1 or REPORT_BATCH_SIZE - 2 bodies for Addr1 in its
\* pending message for the tracker Addr1 hashes to.
BatchInit ==
    /\ procthreads \in 1 .. MaxProcs
    /\ track = [i \in Trackers |-> NewTracker(procthreads)]
    /\ incoming = [i \in Trackers |-> <<>>]
    /\ \E pending \in {REPORT_BATCH_SIZE - 2, REPORT_BATCH_SIZE - 1} :
          state = [p \in AllProcs |->
                     IF p = 0
                     THEN [NewState(p) EXCEPT
                             !.pc = "in", !.current_interval = 1,
                             !.nextmsg[HT] =
                                [@ EXCEPT
                                   !.bodycount = pending,
                                   !.update = [k \in 1 .. pending |->
                                                 process_tags(NULL, 40, Addr1,
                                                              k % 2)],
                                   !.ival = 1]]
                     ELSE NewState(p)]
    /\ merge = IdleMerge
    /\ written = EmptyMap
    /\ failed = ""
    /\ delivered = NULL
    /\ ghost = [trk |-> [i \in Trackers |-> NewGhost],
                pkts |-> [T \in Intervals |-> NoPackets],
                npackets |-> 0, ndelivered |-> 0, irregular |-> FALSE,
                halting |-> FALSE]

BatchSpec == BatchInit /\ [][Next]_vars

\* C31: after every call of update_metrics_for_address (two calls for each
\* packet processed) every pending message has bodycount in
\* 0 .. REPORT_BATCH_SIZE - 1 and holds bodycount bodies; a message is put on
\* a tracker's queue exactly when its bodycount has reached
\* REPORT_BATCH_SIZE, and the pending message then restarts with the bodies
\* added after it only.  In a step that processes a packet the two bodies of
\* the packet are all that is added to the pending and the queued messages.
C31_BatchBounded ==
    /\ [](\A p \in Procs, i \in Trackers :
            /\ state[p].nextmsg[i].bodycount \in 0 .. (REPORT_BATCH_SIZE - 1)
            /\ Len(state[p].nextmsg[i].update) = state[p].nextmsg[i].bodycount)
    /\ [][ghost.npackets' = ghost.npackets + 1 =>
            \E p \in Procs :
              LET sent(i) == Len(incoming'[i]) - Len(incoming[i])
                  added(i) == state'[p].nextmsg[i].bodycount
                                + REPORT_BATCH_SIZE * sent(i)
                                - state[p].nextmsg[i].bodycount
              IN /\ \A q \in Procs \ {p} : state'[q] = state[q]
                 /\ \A i \in Trackers :
                      /\ sent(i) \in {0, 1}
                      /\ added(i) \in {0, 1, 2}
                      /\ SubSeq(incoming'[i], 1, Len(incoming[i])) = incoming[i]
                      /\ sent(i) = 1 =>
                            LET msg == incoming'[i][Len(incoming'[i])]
                            IN /\ msg.bodycount = REPORT_BATCH_SIZE
                               /\ Len(msg.update) = REPORT_BATCH_SIZE
                               /\ SubSeq(msg.update, 1,
                                         state[p].nextmsg[i].bodycount)
                                     = state[p].nextmsg[i].update
                 /\ added(0) + added(1) + added(2) + added(3) = 2]_vars

\* C31 witness: a batch of REPORT_BATCH_SIZE bodies is on the queue and the
\* pending message has restarted and holds the second body of the packet
C31_Witness ==
    /\ Len(incoming[HT]) = 1
    /\ incoming[HT][1].bodycount = REPORT_BATCH_SIZE
    /\ state[0].nextmsg[HT].bodycount = 1
    /\ Len(state[0].nextmsg[HT].update) = 1

\* --------------------------------------------------------------- ArraySpec
\* update_knownip_metric applied to one IP and one tally map, one
\* (metric, role) observation at a time.  delivered holds the IP's entry and
\* the tally map, ghost.observed the ideal set of the <<metric, role>> pairs
\* observed so far.  The IP starts with filled observations behind it, of the
\* metrics TCP source port 1 .. filled (odd ports as source, even ports as
\* destination), so that its array is full or nearly full.
ArrayMetric(k) == GEN_METRICID(CORSARO_METRIC_CLASS_TCP_SOURCE_PORT, k)

\* the entry of the IP and the tally map after the first k observations
RECURSIVE ArrayFilled(_)
ArrayFilled(k) ==
    IF k = 0 THEN [iphash |-> NewIpHash, tally |-> EmptyMap]
    ELSE LET before == ArrayFilled(k - 1)
         IN update_knownip_metric(ArrayMetric(k), before.iphash, k % 2, 40,
                                  before.tally)

ArrayInit ==
    /\ procthreads = 1
    /\ track = [i \in Trackers |-> NewTracker(procthreads)]
    /\ incoming = [i \in Trackers |-> <<>>]
    /\ state = [p \in AllProcs |-> NewState(p)]
    /\ merge = IdleMerge
    /\ written = EmptyMap
    /\ failed = ""
    /\ \E filled \in (METRIC_ARRAY_SIZE - 2) .. METRIC_ARRAY_SIZE :
          /\ delivered = Ptr(ArrayFilled(filled))
          /\ ghost = [observed |-> {<<ArrayMetric(k), k % 2>> :
                                       k \in 1 .. filled},
                      nobserved |-> 0]

\* one more observation of the IP: metric TCP source port k in role issrc
observe_metric(k, issrc) ==
    /\ ghost.nobserved < MaxObservations
    /\ delivered' = Ptr(update_knownip_metric(ArrayMetric(k),
                                              Deref(delivered).iphash, issrc,
                                              40, Deref(delivered).tally))
    /\ ghost' = [observed |-> ghost.observed \cup {<<ArrayMetric(k), issrc>>},
                 nobserved |-> ghost.nobserved + 1]
    /\ UNCHANGED <<procthreads, track, incoming, state, merge, written, failed>>

ArraySpec ==
    ArrayInit /\ [][\E k \in {1, 2, METRIC_ARRAY_SIZE - 1, METRIC_ARRAY_SIZE,
                              METRIC_ARRAY_SIZE + 1, METRIC_ARRAY_SIZE + 2},
                       issrc \in {0, 1} : observe_metric(k, issrc)]_vars

\* C32: for every sequence of (metric, role) observations of one IP, also one
\* with more than METRIC_ARRAY_SIZE metrics, the entry of the IP and the
\* tallies are those of the ideal set of observed pairs: metriccount is the
\* number of metrics observed, the seen bits held for a metric (in the array
\* or, after the conversion, in the map) are the roles it was observed in, and
\* srcips / destips of a tally is 1 exactly if the metric was observed in that
\* role, that is, it was incremented on the first such observation only.
C32_ArrayAndMapAreASet ==
    LET iphash == Deref(delivered).iphash
        tally == Deref(delivered).tally
        metrics == {pair[1] : pair \in ghost.observed}
        bit(b) == IF b THEN 1 ELSE 0
    IN /\ iphash.metriccount = Cardinality(metrics)
       /\ DOMAIN tally = metrics
       /\ \A metricid \in metrics :
             /\ MetVal(iphash, metricid) =
                   bit(<<metricid, 1>> \in ghost.observed)
                     + 2 * bit(<<metricid, 0>> \in ghost.observed)
             /\ tally[metricid].srcips = bit(<<metricid, 1>> \in ghost.observed)
             /\ tally[metricid].destips = bit(<<metricid, 0>> \in ghost.observed)
       /\ iphash.metriccount > METRIC_ARRAY_SIZE =>
             DOMAIN iphash.metricsseen = metrics

\* C32 witness: the array was converted into the map, and after that a metric
\* of the array was observed again in a role it already had and in its other
\* role
C32_Witness ==
    /\ Deref(delivered).iphash.metriccount = METRIC_ARRAY_SIZE + 1
    /\ ghost.nobserved = 3
    /\ <<ArrayMetric(1), 0>> \in ghost.observed
    /\ Deref(delivered).tally[ArrayMetric(1)].packets = 3
    /\ Deref(delivered).tally[ArrayMetric(1)].srcips = 1
    /\ Deref(delivered).tally[ArrayMetric(1)].destips = 1

\* C33: whenever a tracker is about to publish a newly finalized tally its
\* lastresult is NULL (the merge thread has taken the previous tally): the
\* test of lastresult before the publication never finds a tally, in any
\* interleaving of the processing threads, the trackers and the merge thread.
C33_PreviousResultTaken ==
    ~ghost.irregular => failed # "lastresult_pending"

\* C34: whenever the merge thread, merging interval T, holds the mutex of a
\* tracker it has not yet merged and inspects it, the tracker's lastresultts
\* is at most T, so the assertion on the two timestamps never fails, however
\* the steps of the tracker thread and of the merge thread interleave.
C34_TrackerNotAheadOfMerger ==
    /\ failed # "merge_timestamp"
    /\ ghost.holder = "merger" => merge.fin >= track[HT].lastresultts

\* C34 witness: the merge thread inspects the tracker while merging interval 1
\* and finds the result of interval 1, and the tracker publishes interval 2
\* before the merge thread has left the polling loop of interval 1
C34_Witness ==
    /\ merge.pc = "polling"
    /\ merge.fin = 1
    /\ HT \in merge.trackers_done
    /\ track[HT].lastresultts = 2
    /\ failed = ""

\* C35: an INTERVAL message whose timestamp is 0 or is not above the
\* tracker's lastresultts is ignored: the outstanding list, the current and
\* the next maps, lastresult, lastresultts and haltphase (every field of the
\* tracker) are left as they were, and no assertion fails.
C35_StaleIntervalIgnored ==
    [][(/\ Handed
        /\ Deref(delivered').msgtype = CORSARO_IP_MESSAGE_INTERVAL
        /\ \/ Deref(delivered').timestamp = 0
           \/ Deref(delivered').timestamp <= track[HT].lastresultts)
          => /\ track'[HT] = track[HT]
             /\ failed' = ""
             /\ ghost'.trk[HT].final = ghost.trk[HT].final]_vars

\* C35 witness: interval 1 was published, sender 0 has reported interval 2,
\* and then the tracker was handed another INTERVAL(1)
C35_Witness ==
    /\ procthreads = 2
    /\ ghost.ndelivered = 4
    /\ state[0].current_interval = 3
    /\ state[1].current_interval = 2
    /\ delivered # NULL
    /\ Deref(delivered).kind = "stray"
    /\ Deref(delivered).timestamp = 1
    /\ track[HT].lastresultts = 1
    /\ Len(track[HT].outstanding) = 1

\* C36: when every processing thread announces the interval timestamps
\* 1, 2, ... in this order and the tracker takes the messages of each thread
\* in the order they were sent, the intervals the tracker has published are
\* 1, 2, ..., k with none left out, the outstanding list is in strictly
\* increasing order of timestamp, update_outstanding takes off the list only
\* the entry at its head and only when every thread has reported it, and the
\* assertion on the order of the timestamps does not fail.
C36_IntervalsCompleteInOrder ==
    /\ [](~ghost.irregular =>
            /\ failed # "interval_order"
            /\ ghost.trk[HT].final = [k \in 1 .. Len(ghost.trk[HT].final) |-> k]
            /\ \A k \in 1 .. (Len(track[HT].outstanding) - 1) :
                  track[HT].outstanding[k].interval_ts
                      < track[HT].outstanding[k + 1].interval_ts)
    /\ [][(Handed /\ ~ghost'.irregular
              /\ Len(track'[HT].outstanding) < Len(track[HT].outstanding))
            => /\ track'[HT].outstanding = Tail(track[HT].outstanding)
               /\ Head(track[HT].outstanding).interval_ts
                      = Deref(delivered').timestamp
               /\ Head(track[HT].outstanding).reports_recvd
                      \cup {Deref(delivered').sender}
                      = 0 .. (track[HT].sourcethreads - 1)]_vars

\* C36 witness: two processing threads have announced intervals 1 and 2 in
\* order and the tracker has published both
C36_Witness ==
    /\ procthreads = 2
    /\ ~ghost.irregular
    /\ failed = ""
    /\ ghost.trk[HT].final = <<1, 2>>
    /\ track[HT].outstanding = <<>>

\* ------------------------------------------------------------ DistinctSpec
\* perform_distinct_merge, one pass of its do-while loop per step.
\* procthreads is tcount.  state[i] is reader i: open (readers[i] != NULL),
\* type and key of results[i], pos (the number of results read from the
\* file so far, which with i names the result held), file (the keys still
\* in the interim file), bad (the read after the last result fails instead of
\* giving EOF) and closes (calls of corsaro_close_merge_reader on it).
\* written is the merged output, merge the position of the function and its
\* return value; ghost.files holds the files as they were at the start.
CORSARO_RESULT_TYPE_BLANK == 0
CORSARO_RESULT_TYPE_EOF == 1
CORSARO_RESULT_TYPE_DATA == 2

\* a variant of compare_results with the order reversed
compare_results_reversed(cand, res) == res.key - cand.key

\* the plugin's compare_results callback: the results are ordered by key
compare_results(cand, res) == cand.key - res.key

\* the for loop of perform_distinct_merge from reader i on;
\* s = [rd: the readers and their results, candind]
RECURSIVE ScanReaders(_, _, _)
ScanReaders(s, i, tcount) ==
    IF i >= tcount THEN s
    ELSE LET r == s.rd[i]
             \* corsaro_read_next_merge_result: the next result of the file,
             \* EOF behind the last one, or -1
             ret == IF r.type = CORSARO_RESULT_TYPE_BLANK /\ r.file = <<>> /\ r.bad
                    THEN -1 ELSE 0
             fresh == IF r.type # CORSARO_RESULT_TYPE_BLANK THEN r
                      ELSE IF r.file # <<>>
                      THEN [r EXCEPT !.type = CORSARO_RESULT_TYPE_DATA,
                                     !.key = Head(r.file), !.pos = @ + 1,
                                     !.file = Tail(r.file)]
                      ELSE IF r.bad THEN r
                      ELSE [r EXCEPT !.type = CORSARO_RESULT_TYPE_EOF]
             closed == [fresh EXCEPT !.open = FALSE, !.closes = @ + 1,
                                     !.type = CORSARO_RESULT_TYPE_EOF]
         IN IF ~r.open THEN ScanReaders(s, i + 1, tcount)
            ELSE IF ret = -1 \/ fresh.type = CORSARO_RESULT_TYPE_EOF
            THEN ScanReaders([s EXCEPT !.rd[i] = closed], i + 1, tcount)
            ELSE IF s.candind = -1
            THEN ScanReaders([rd |-> [s.rd EXCEPT ![i] = fresh], candind |-> i],
                             i + 1, tcount)
            ELSE IF compare_results(s.rd[s.candind], fresh) > 0
            THEN ScanReaders([rd |-> [s.rd EXCEPT ![i] = fresh], candind |-> i],
                             i + 1, tcount)
            ELSE ScanReaders([s EXCEPT !.rd[i] = fresh], i + 1, tcount)

DistinctInit ==
    /\ procthreads \in 1 .. MaxReaders
    /\ \E files \in [0 .. (procthreads - 1) ->
                        UNION {[1 .. n -> 1 .. MaxResults] : n \in 0 .. MaxResults}],
          bad \in [0 .. (procthreads - 1) -> BOOLEAN] :
          /\ state = [i \in 0 .. (procthreads - 1) |->
                        [open |-> TRUE, type |-> CORSARO_RESULT_TYPE_BLANK,
                         key |-> 0, pos |-> 0, file |-> files[i],
                         bad |-> bad[i], closes |-> 0]]
          /\ ghost = [files |-> files]
    /\ merge = [pc |-> "loop", ret |-> 0, candind |-> -1]
    /\ written = <<>>
    /\ track = <<>>
    /\ incoming = <<>>
    /\ failed = ""
    /\ delivered = NULL

\* one pass of the do-while loop; wrote is what
\* corsaro_write_next_merge_result returns when it is called
perform_distinct_merge(wrote) ==
    /\ merge.pc = "loop"
    /\ LET s == ScanReaders([rd |-> state, candind |-> -1], 0, procthreads)
       IN IF s.candind = -1
          THEN /\ wrote = 0
               /\ state' = s.rd
               /\ merge' = [pc |-> "returned", ret |-> 0, candind |-> -1]
               /\ UNCHANGED written
          ELSE IF wrote < 0
          THEN /\ state' = s.rd
               /\ merge' = [pc |-> "returned", ret |-> -1, candind |-> s.candind]
               /\ UNCHANGED written
          ELSE /\ written' = Append(written,
                                 [reader |-> s.candind, pos |-> s.rd[s.candind].pos,
                                  key |-> s.rd[s.candind].key])
               /\ state' = [s.rd EXCEPT ![s.candind].type = CORSARO_RESULT_TYPE_BLANK]
               /\ merge' = [pc |-> "loop", ret |-> 0, candind |-> s.candind]
    /\ UNCHANGED <<procthreads, track, incoming, failed, delivered, ghost>>

DistinctSpec ==
    DistinctInit /\ [][\E wrote \in {0, -1} : perform_distinct_merge(wrote)]_vars

\* C37: perform_distinct_merge writes every result it reads from a reader
\* exactly once, each time a result that is minimal under compare_results
\* among the results the readers hold (sorted files give a sorted output),
\* closes each reader exactly once, at EOF or at a read error, and returns
\* once every reader is closed.
C37_DistinctMerge ==
    LET readers == 0 .. (procthreads - 1)
        \* the places in the output of result pos of reader i
        places(i, pos) == {k \in 1 .. Len(written) :
                              written[k].reader = i /\ written[k].pos = pos}
        \* the results read so far that are not held unwritten in results[i]
        passed(i) == IF state[i].type = CORSARO_RESULT_TYPE_DATA
                     THEN state[i].pos - 1 ELSE state[i].pos
        sorted(f) == \A k \in 1 .. (Len(f) - 1) : f[k] <= f[k + 1]
    IN /\ \A i \in readers :
             /\ \A pos \in 1 .. MaxResults :
                   /\ Cardinality(places(i, pos)) = (IF pos <= passed(i) THEN 1 ELSE 0)
                   /\ \A k \in places(i, pos) : written[k].key = ghost.files[i][pos]
             /\ state[i].closes = (IF state[i].open THEN 0 ELSE 1)
             /\ ~state[i].open => state[i].file = <<>>
       /\ (merge.pc = "loop" /\ written # <<>>) =>
             \A i \in readers :
                 state[i].type = CORSARO_RESULT_TYPE_DATA =>
                     written[Len(written)].key <= state[i].key
       /\ (\A i \in readers : sorted(ghost.files[i])) =>
             sorted([k \in 1 .. Len(written) |-> written[k].key])
       /\ merge.pc = "loop" => \E i \in readers : state[i].open
       /\ merge.pc = "returned" =>
             \A i \in readers : ~state[i].open /\ passed(i) = state[i].pos

\* C37 as amended: the above holds as long as corsaro_write_next_merge_result
\* succeeds, and then the function returns 0 once every reader is closed;
\* when a write fails the function returns -1 at once, the result it was
\* writing and the results held for the other readers stay unwritten, and
\* the readers still open are left open.
C37_DistinctMergeWhileWritable ==
    LET readers == 0 .. (procthreads - 1)
        \* the places in the output of result pos of reader i
        places(i, pos) == {k \in 1 .. Len(written) :
                              written[k].reader = i /\ written[k].pos = pos}
        \* the results read so far that are not held unwritten in results[i]
        passed(i) == IF state[i].type = CORSARO_RESULT_TYPE_DATA
                     THEN state[i].pos - 1 ELSE state[i].pos
        sorted(f) == \A k \in 1 .. (Len(f) - 1) : f[k] <= f[k + 1]
    IN /\ \A i \in readers :
             /\ \A pos \in 1 .. MaxResults :
                   /\ Cardinality(places(i, pos)) = (IF pos <= passed(i) THEN 1 ELSE 0)
                   /\ \A k \in places(i, pos) : written[k].key = ghost.files[i][pos]
             /\ state[i].closes = (IF state[i].open THEN 0 ELSE 1)
             /\ ~state[i].open => state[i].file = <<>>
       /\ (merge.pc = "loop" /\ written # <<>>) =>
             \A i \in readers :
                 state[i].type = CORSARO_RESULT_TYPE_DATA =>
                     written[Len(written)].key <= state[i].key
       /\ (\A i \in readers : sorted(ghost.files[i])) =>
             sorted([k \in 1 .. Len(written) |-> written[k].key])
       /\ merge.pc = "loop" => \E i \in readers : state[i].open
       /\ (merge.pc = "returned" /\ merge.ret = 0) =>
             \A i \in readers : ~state[i].open /\ passed(i) = state[i].pos
       /\ (merge.pc = "returned" /\ merge.ret # 0) =>
             /\ merge.ret = -1
             /\ state[merge.candind].open
             /\ state[merge.candind].type = CORSARO_RESULT_TYPE_DATA

\* C37 witness: three files were merged into an output of four results, one
\* reader was closed at a read error and one at EOF, and the function has
\* returned 0
C37_Witness ==
    /\ procthreads = 3
    /\ merge.pc = "returned"
    /\ merge.ret = 0
    /\ Len(written) = 4
    /\ state[0].bad /\ state[0].pos = 2
    /\ ~state[1].bad /\ state[1].pos = 2
    /\ \A i \in 0 .. 2 : state[i].closes = 1

\* ------------------------------------------------------------- PluginsSpec
\* corsaro_merge_plugin_outputs, one pass of its while loop per step.
\* procthreads is the number of active plugins; plugin k of the list (0 for
\* the first) has the state entry plugin_state[k].  state[k] tells what the
\* calls made for plugin k give: named (derive_output_name gives a name),
\* created (corsaro_create_merge_writer gives a writer), opened (the reader is
\* created) and merged (the merge does not return -1).  merge holds p (the
\* position in the list, procthreads for NULL), index and errors; written
\* logs every merge that was run: the plugin, the index of the state entry
\* passed and the plugin whose writer was passed (NULL for no writer).
PluginsInit ==
    /\ procthreads \in 1 .. MaxPlugins
    /\ state \in [0 .. (procthreads - 1) ->
                    [named : BOOLEAN, created : BOOLEAN, opened : BOOLEAN,
                     merged : BOOLEAN]]
    /\ merge = [pc |-> "loop", p |-> 0, index |-> 0, errors |-> 0]
    /\ written = <<>>
    /\ failed = ""
    /\ track = <<>>
    /\ incoming = <<>>
    /\ delivered = NULL
    /\ ghost = NULL

\* the loop body from the creation of the readers on, for plugin p with
\* state entry index and the given writer
MergePlugin(m, p, index, writer) ==
    [m EXCEPT !.p = p + 1, !.index = index + 1,
              !.errors = @ + (IF state[p].opened THEN 0 ELSE 1)
                           + (IF state[p].merged THEN 0 ELSE 1)]

corsaro_merge_plugin_outputs ==
    /\ failed = ""
    /\ merge.pc = "loop"
    /\ LET p == merge.p
           index == merge.index
           failure == [merge EXCEPT !.errors = @ + 1]
       IN IF p = procthreads
          THEN /\ merge' = [merge EXCEPT !.pc = "returned"]
               /\ UNCHANGED <<written, failed>>
          ELSE IF ~state[p].named
          THEN /\ merge' = [failure EXCEPT !.p = p + 1]
               /\ UNCHANGED <<written, failed>>
          ELSE IF ~state[p].created
          THEN \* p and index move on and the body goes on with them
               IF p + 1 = procthreads
               THEN /\ failed' = "null_plugin"
                    /\ merge' = [failure EXCEPT !.p = p + 1, !.index = index + 1]
                    /\ UNCHANGED written
               ELSE /\ written' = Append(written, [plugin |-> p + 1,
                                                   index |-> index + 1,
                                                   writer |-> NULL])
                    /\ merge' = MergePlugin(failure, p + 1, index + 1, NULL)
                    /\ UNCHANGED failed
          ELSE /\ written' = Append(written, [plugin |-> p, index |-> index,
                                              writer |-> Ptr(p)])
               /\ merge' = MergePlugin(merge, p, index, Ptr(p))
               /\ UNCHANGED failed
    /\ UNCHANGED <<procthreads, track, incoming, state, delivered, ghost>>

PluginsSpec == PluginsInit /\ [][corsaro_merge_plugin_outputs]_vars

\* C38: a plugin whose output name cannot be derived or whose merge writer
\* cannot be created is skipped and counted as an error, and every other
\* plugin is merged, with the plugin and its writer not NULL and with its own
\* state entry: the i-th plugin of the list is processed with plugin_state[i].
C38_FailedPluginSkipped ==
    LET plugins == 0 .. (procthreads - 1)
        usable(k) == state[k].named /\ state[k].created
        runs(k) == {n \in 1 .. Len(written) : written[n].plugin = k}
    IN /\ failed = ""
       /\ \A n \in 1 .. Len(written) :
             /\ written[n].index = written[n].plugin
             /\ written[n].writer = Ptr(written[n].plugin)
       /\ \A k \in plugins :
             /\ ~usable(k) => runs(k) = {}
             /\ (usable(k) /\ merge.p > k) => Cardinality(runs(k)) = 1
       /\ merge.errors >= Cardinality({k \in plugins : k < merge.p /\ ~usable(k)})

\* -------------------------------------------------------------- TaggerSpec
\* corsaro_replace_ipmeta_provider called on a packet tagger.  state is
\* tagger->providers, a list of entries [id, inst]: the id of the provider
\* the entry points to and which instance it is (0 for the providers enabled
\* at the start, n for the one passed to the n-th call, -1 for an entry that
\* does not point to a provider any more).  merge holds providermask, whether
\* tagger->ipmeta is set, the number of calls made and the last return value;
\* delivered is the provider passed to the last call.
TaggerInit ==
    /\ procthreads = 1
    /\ \E n \in 0 .. MaxProviders :
          \E ids \in {f \in [1 .. n -> 1 .. MaxProviders] :
                         \A j, k \in 1 .. n : j # k => f[j] # f[k]} :
              /\ state = [k \in 1 .. n |-> [id |-> ids[k], inst |-> 0]]
              /\ \E ipmeta \in BOOLEAN :
                    \* the bits of the providers enabled so far
                    LET mask[k \in 0 .. n] ==
                            IF k = 0 THEN 0 ELSE mask[k - 1] + 2 ^ (ids[k] - 1)
                    IN merge = [providermask |-> mask[n], ipmeta |-> ipmeta,
                                ncalls |-> 0, ret |-> 0]
    /\ written = <<>>
    /\ failed = ""
    /\ track = <<>>
    /\ incoming = <<>>
    /\ delivered = NULL
    /\ ghost = NULL

\* prov is NULL or a provider [id, inst].  The search loop moves n to the
\* next node before it compares, so at a match n is the node behind the
\* matching one (position hit + 1), or NULL when the match is the last node.
\* The node's data is set to the address of the parameter prov, which is
\* gone when the function returns: the entry then reads as the new provider
\* or as anything else (stale).
corsaro_replace_ipmeta_provider(prov, stale) ==
    /\ failed = ""
    /\ merge.ncalls < MaxCalls
    /\ delivered' = prov
    /\ LET called == [merge EXCEPT !.ncalls = @ + 1]
           new == Deref(prov)
           hits == {k \in 1 .. Len(state) : state[k].id = new.id}
           hit == CHOOSE k \in hits : \A j \in hits : k <= j
           bit == 2 ^ (new.id - 1)
       IN IF ~merge.ipmeta
          THEN /\ merge' = [called EXCEPT !.ret = -1]
               /\ UNCHANGED <<state, failed>>
          ELSE IF prov = NULL
          THEN /\ merge' = [called EXCEPT !.ret = 0]
               /\ UNCHANGED <<state, failed>>
          ELSE IF hits = {}
          THEN /\ state' = Append(state, new)
               /\ merge' = [called EXCEPT
                               !.ret = 0,
                               !.providermask =
                                   IF (@ \div bit) % 2 = 1 THEN @ ELSE @ + bit]
               /\ UNCHANGED failed
          ELSE IF hit = Len(state)
          THEN /\ failed' = "null_node"
               /\ merge' = called
               /\ UNCHANGED state
          ELSE /\ state' = [state EXCEPT ![hit + 1] = stale]
               /\ merge' = [called EXCEPT !.ret = 0]
               /\ UNCHANGED failed
    /\ UNCHANGED <<procthreads, track, incoming, written, ghost>>

TaggerSpec ==
    TaggerInit
    /\ [][\E id \in 0 .. MaxProviders, staleid \in 0 .. MaxProviders :
             LET prov == IF id = 0 THEN NULL
                         ELSE Ptr([id |-> id, inst |-> merge.ncalls + 1])
                 stale == IF staleid = 0 /\ id # 0 THEN Deref(prov)
                          ELSE [id |-> staleid, inst |-> -1]
             IN corsaro_replace_ipmeta_provider(prov, stale)]_vars

\* C39: a call of corsaro_replace_ipmeta_provider with a provider, on a
\* tagger that has an IPMeta instance: when the list holds a provider with
\* the id of the new one, exactly that entry is replaced by the new provider
\* and the other entries, the length of the list and providermask stay as
\* they were; when no entry has that id the new provider is appended and its
\* bit is set in providermask.
C39_ReplacesMatchingProvider ==
    [][(merge'.ncalls = merge.ncalls + 1 /\ merge.ipmeta /\ delivered' # NULL) =>
          LET new == Deref(delivered')
              hits == {k \in 1 .. Len(state) : state[k].id = new.id}
              bit == 2 ^ (new.id - 1)
          IN /\ failed' = ""
             /\ merge'.ret = 0
             /\ IF hits = {}
                THEN /\ state' = Append(state, new)
                     /\ (merge'.providermask \div bit) % 2 = 1
                     /\ \A id \in (1 .. MaxProviders) \ {new.id} :
                           (merge'.providermask \div (2 ^ (id - 1))) % 2 =
                              (merge.providermask \div (2 ^ (id - 1))) % 2
                ELSE /\ Len(state') = Len(state)
                     /\ \A k \in 1 .. Len(state) :
                           state'[k] = IF k \in hits THEN new ELSE state[k]
                     /\ merge'.providermask = merge.providermask]_vars
====
